---------------------------- MODULE Spec2Model ----------------------------
(***************************************************************************)
(* A model of the L2-to-L1 translation production task                     *)
(* (src/L2_to_L1.py: L2ToL1Task.run / run_task / run_trial /               *)
(* save_detailed_log, show_fixation, wait_for_trigger) and of the offline  *)
(* latency analysis (src/Results/analyze_latency.py: detect_onset_after,   *)
(* analyze).                                                               *)
(*                                                                         *)
(* Time is counted in poll ticks: one tick is the time one pass of a poll   *)
(* loop, with its pygame.time.wait(10), takes.  Energies and               *)
(* thresholds of the analysis are in quarter-dB, its times in quarter-ms,  *)
(* so that numpy's linear-interpolated percentile and the half-sample      *)
(* frame centre stay integers.                                             *)
(***************************************************************************)
EXTENDS Integers, Sequences, FiniteSets, TLC

---------------------------------------------------------------------------
(* Bounds of the model *)

\* number of stimuli returned by get_all_stimuli (24 in the program)
NumTrials == 2
\* FIXED_STIMULUS_TIME (6.0 s) in poll ticks
StimulusTicks == 1
\* ITI_DURATION (1.5 s) in poll ticks
ItiTicks == 1
\* the 10.0 s long rests in poll ticks
RestTicks == 1

\* the longest energy contour of a recording, in frames
MaxFrames == 4
\* the largest --min-frames (4 by default in the program)
MaxMinFrames == 2
\* the most rows of a results CSV
MaxRows == 3
\* the most events of a timeline handed to save_detailed_log on its own
MaxLogLen == 3
\* the most samples of silence before the burst of a recording
MaxSilence == 5
\* the most samples of a burst
MaxBurst == 8

---------------------------------------------------------------------------
(* State of the online session *)

VARIABLES
    pc,                 \* position of control in run / run_task / run_trial
    now,                \* time.time()
    pending,            \* pygame event queue: "none", "quit" or "esc"
    trigger_time,       \* self.trigger_time (0 models None)
    audio_available,    \* self.audio_available
    audio_error,        \* self.audio_error: "none", or the call that raised
    playback_available, \* self.playback_available
    detailed_log,       \* self.detailed_log
    timestamps,         \* self.timestamps
    trial_data,         \* run_task's trial_data
    interrupted,        \* run_task's interrupted
    last_trial_idx,     \* run_task's last_trial_idx
    trials,             \* run_task's trials: the number of stimuli
    result,             \* what the last run_trial returned
    task_result,        \* what run returned: "unset", "True", "False"
    loc,                \* run_trial's locals
    start_wait,         \* start of the running poll loop
    rec_active,         \* sounddevice: a capture is in flight
    chan_busy,          \* pygame.mixer: the channel is playing
    files               \* what has been written to disk

sessionVars == <<pc, now, pending, trigger_time, audio_available, audio_error,
                 playback_available, detailed_log, timestamps, trial_data,
                 interrupted, last_trial_idx, result, task_result, loc,
                 start_wait, rec_active, chan_busy, files, trials>>

---------------------------------------------------------------------------
(* State of the offline analysis *)

VARIABLES
    a_pc,       \* position of control in analyze / detect_onset_after
    args,       \* the arguments of the running call
    df,         \* analyze: the rows read from the results CSV
    records,    \* analyze: the result rows collected so far
    onset_ms,   \* what detect_onset_after returned
    resorted    \* the persisted log, sorted once more

offlineVars == <<a_pc, args, df, records, onset_ms, resorted>>

\* Python's None, and a value that is not None
None == <<>>
Some(v) == <<v>>

NoLocals ==
    [ trial_start_time      |-> 0,
      recording             |-> FALSE,   \* recording is not None
      audio_filename        |-> FALSE,   \* audio_filename is not None
      playback_sound        |-> FALSE,   \* playback_sound is not None
      playback_file         |-> FALSE,   \* playback_file is not None
      playback_channel      |-> FALSE,   \* playback_channel is not None
      playback_start_time   |-> FALSE,   \* playback_start_time is not None
      playback_end_time     |-> FALSE,   \* playback_end_time is not None
      playback_end_logged   |-> FALSE ]

NoFiles ==
    [ log_written   |-> FALSE,   \* the detailed log CSV exists
      log_rows      |-> <<>>,    \* its rows
      log_flag      |-> FALSE,   \* its interrupted column
      log_saves     |-> 0,       \* calls of save_detailed_log that wrote
      ts_rows       |-> <<>>,    \* rows of the timestamps CSV
      csv_rows      |-> <<>>,    \* rows of the trial results CSV
      recordings    |-> {} ]     \* trials whose WAV file was written

\* run_trial has not returned yet / returned None (lines 542, 550, 614)
NoResult == [kind |-> "unset", trial |-> 0, recording_file |-> FALSE,
             playback_audio_file |-> FALSE]
ReturnedNone == [kind |-> "None", trial |-> 0, recording_file |-> FALSE,
                 playback_audio_file |-> FALSE]

TrialPcs == {"trial_start", "load_playback", "start_recording",
             "start_playback", "prompt_onset", "record_window",
             "finish_recording", "finish_playback", "fixation_onset",
             "iti", "trial_end"}

---------------------------------------------------------------------------
(* Event timeline *)

\* the subtraction the other way round
Onset_Reversed(t) == IF trigger_time # 0 THEN trigger_time - t ELSE 0

\* onset of an event emitted now: time.time() - trigger_time if trigger_time else 0
Onset(t) == IF trigger_time # 0 THEN t - trigger_time ELSE 0

Event(type, trial, t) ==
    [event_type |-> type, trial |-> trial, onset |-> Onset(t)]

\* the event is put in front of the list
Emit_InFront(log, type, trial, t) == <<Event(type, trial, t)>> \o log

\* self.detailed_log.append(...)
Emit(log, type, trial, t) == Append(log, Event(type, trial, t))

\* the one element of a set of one element
TheOnly(S) == CHOOSE x \in S : TRUE

\* e is put behind every row whose onset is <= its own (ties keep their order)
InsertAfterTies(e, s) ==
    TheOnly({ LET k == Cardinality({i \in 1..Len(r) : r[i].onset <= e.onset})
              IN  SubSeq(r, 1, k) \o <<e>> \o SubSeq(r, k + 1, Len(r))
              : r \in {s} })

\* e is put before every row whose onset is >= its own (ties are reversed)
InsertBeforeTies(e, s) ==
    TheOnly({ LET k == Cardinality({i \in 1..Len(r) : r[i].onset < e.onset})
              IN  SubSeq(r, 1, k) \o <<e>> \o SubSeq(r, k + 1, Len(r))
              : r \in {s} })

RECURSIVE SortKeepTies(_)
SortKeepTies(rows) ==
    IF rows = <<>> THEN <<>>
    ELSE TheOnly({ InsertAfterTies(rows[Len(rows)], SortKeepTies(front))
                   : front \in {SubSeq(rows, 1, Len(rows) - 1)} })

RECURSIVE SortFlipTies(_)
SortFlipTies(rows) ==
    IF rows = <<>> THEN <<>>
    ELSE TheOnly({ InsertBeforeTies(rows[Len(rows)], SortFlipTies(front))
                   : front \in {SubSeq(rows, 1, Len(rows) - 1)} })

\* log_df.sort_values(by='onset').reset_index(drop=True): pandas sorts with
\* kind='quicksort', which is not stable, so rows of equal onset may come out
\* in any order; the model keeps two of these orders, the emitted one and
\* its reverse.
sort_values(rows) == {SortKeepTies(rows), SortFlipTies(rows)}

\* save_detailed_log(interrupted): the files it can leave behind
save_detailed_log(f, log, flag) ==
    IF log = <<>> THEN {f}
    ELSE { [f EXCEPT !.log_written = TRUE, !.log_rows = rows,
                     !.log_flag = flag, !.log_saves = @ + 1]
           : rows \in sort_values(log) }

\* save_timestamps()
save_timestamps(f, ts) ==
    IF ts = <<>> THEN f ELSE [f EXCEPT !.ts_rows = ts]


---------------------------------------------------------------------------
(* Environment of the session *)

\* the participant closes the window or presses ESC; the event waits in
\* pygame's queue until the next pygame.event.get()
UserCancel ==
    /\ pc # "exited"
    /\ pending = "none"
    /\ pending' \in {"quit", "esc"}
    /\ UNCHANGED <<trials, offlineVars>>
    /\ UNCHANGED <<pc, now, trigger_time, audio_available, audio_error, playback_available,
                   detailed_log, timestamps, trial_data, interrupted,
                   last_trial_idx, result, task_result, loc, start_wait,
                   rec_active, chan_busy, files>>

\* the stimulus sound reaches its end: Channel.get_busy() turns false
PlaybackFinishes ==
    /\ pc # "exited"
    /\ chan_busy
    /\ chan_busy' = FALSE
    /\ UNCHANGED <<trials, offlineVars>>
    /\ UNCHANGED <<pc, now, pending, trigger_time, audio_available, audio_error,
                   playback_available, detailed_log, timestamps, trial_data,
                   interrupted, last_trial_idx, result, task_result, loc,
                   start_wait, rec_active, files>>

\* the event loop saw QUIT, or KEYDOWN with K_ESCAPE
CancelSeen(ev) == ev \in {"quit", "esc"}

\* run's finally clause: cleanup() quits pygame (the mixer stops, the event
\* queue is gone), then the process ends and with it the capture and every
\* local
cleanup ==
    /\ pending' = "none"
    /\ chan_busy' = FALSE
    /\ rec_active' = FALSE
    /\ loc' = NoLocals
    /\ start_wait' = 0

---------------------------------------------------------------------------
(* run_task up to the trial loop *)

initialize_audio ==
    /\ pc = "initialize_audio"
    /\ \E found \in BOOLEAN :             \* sd.query_devices() may raise
         /\ audio_available' = found
         /\ audio_error' = IF found THEN "none" ELSE "query_devices"
    /\ pc' = "initialize_playback"
    /\ UNCHANGED <<trials, offlineVars>>
    /\ UNCHANGED <<now, pending, trigger_time, playback_available,
                   detailed_log, timestamps, trial_data, interrupted,
                   last_trial_idx, result, task_result, loc, start_wait,
                   rec_active, chan_busy, files>>

initialize_playback ==
    /\ pc = "initialize_playback"
    /\ playback_available' \in BOOLEAN     \* pygame.mixer.init() may raise
    /\ pc' = "show_instructions"
    /\ UNCHANGED <<trials, offlineVars>>
    /\ UNCHANGED <<now, pending, trigger_time, audio_available, audio_error,
                   detailed_log, timestamps, trial_data, interrupted,
                   last_trial_idx, result, task_result, loc, start_wait,
                   rec_active, chan_busy, files>>

\* show_instructions and its caller: SPACE goes on, QUIT or ESC returns False
show_instructions ==
    /\ pc = "show_instructions"
    /\ IF CancelSeen(pending)
       THEN /\ pc' = "exited"
            /\ task_result' = "False"
            /\ cleanup
       ELSE /\ pc' = "wait_for_trigger"
            /\ pending' = "none"
            /\ UNCHANGED <<task_result, loc, start_wait, rec_active, chan_busy>>
    /\ UNCHANGED <<trials, offlineVars>>
    /\ UNCHANGED <<now, trigger_time, audio_available, audio_error, playback_available,
                   detailed_log, timestamps, trial_data, interrupted,
                   last_trial_idx, result, files>>

\* the trigger is received and no reference is kept
TriggerTime_NotKept(t) == 0

\* lines 234, 752: the time of the key press becomes self.trigger_time
TriggerTime(t) == t

\* wait_for_trigger and its caller: key 5 sets the trigger time
wait_for_trigger ==
    /\ pc = "wait_for_trigger"
    /\ IF CancelSeen(pending)
       THEN /\ pc' = "exited"
            /\ task_result' = "False"
            /\ cleanup
            /\ UNCHANGED trigger_time
       ELSE /\ pc' = "experiment_start"
            /\ trigger_time' = TriggerTime(now)
            /\ pending' = "none"
            /\ UNCHANGED <<task_result, loc, start_wait, rec_active, chan_busy>>
    /\ UNCHANGED <<trials, offlineVars>>
    /\ UNCHANGED <<now, audio_available, audio_error, playback_available, detailed_log,
                   timestamps, trial_data, interrupted, last_trial_idx,
                   result, files>>

\* experiment_start and initial_long_rest are logged, the rest begins
experiment_start ==
    /\ pc = "experiment_start"
    /\ detailed_log' = Emit(Emit(detailed_log, "experiment_start", 0, now),
                            "initial_long_rest", 0, now)
    /\ start_wait' = now
    /\ pc' = "initial_rest"
    /\ UNCHANGED <<trials, offlineVars>>
    /\ UNCHANGED <<now, pending, trigger_time, audio_available, audio_error,
                   playback_available, timestamps, trial_data, interrupted,
                   last_trial_idx, result, task_result, loc, rec_active,
                   chan_busy, files>>

---------------------------------------------------------------------------
(* show_fixation, called for the initial rest, the ITI and the final rest *)

FixationPcs == {"initial_rest", "iti", "final_rest"}

Duration(p) == IF p = "iti" THEN ItiTicks ELSE RestTicks

\* a cancelled ITI goes on as if it had elapsed
AfterFixationCancelled_Ignored(p) ==
    CASE p = "initial_rest" -> "rest_aborted"
      [] p = "iti"          -> "trial_end"
      [] p = "final_rest"   -> "finalize"

\* where control goes when show_fixation returns False
AfterFixationCancelled(p) ==
    CASE p = "initial_rest" -> "rest_aborted"
      [] p = "iti"          -> "trial_return"
      [] p = "final_rest"   -> "finalize"

\* where control goes when show_fixation returns True
AfterFixationElapsed(p) ==
    CASE p = "initial_rest" -> "loop_head"
      [] p = "iti"          -> "trial_end"
      [] p = "final_rest"   -> "finalize"

\* one pass of show_fixation's loop
show_fixation_poll ==
    /\ pc \in FixationPcs
    /\ now - start_wait < Duration(pc)
    /\ pending' = "none"
    /\ IF CancelSeen(pending)
       THEN /\ pc' = AfterFixationCancelled(pc)
            /\ result' = IF pc = "iti" THEN ReturnedNone ELSE result
            /\ loc' = NoLocals
            /\ start_wait' = 0
            /\ UNCHANGED now
       ELSE /\ now' = now + 1      \* pygame.time.wait(10)
            /\ UNCHANGED <<pc, result, loc, start_wait>>
    /\ UNCHANGED <<trials, offlineVars>>
    /\ UNCHANGED <<trigger_time, audio_available, audio_error, playback_available,
                   detailed_log, timestamps, trial_data, interrupted,
                   last_trial_idx, task_result, rec_active, chan_busy, files>>

\* the duration has passed: show_fixation returns True
show_fixation_elapsed ==
    /\ pc \in FixationPcs
    /\ now - start_wait >= Duration(pc)
    /\ pc' = AfterFixationElapsed(pc)
    /\ IF pc = "initial_rest"
       THEN /\ trial_data' = <<>>
            /\ interrupted' = FALSE
            /\ last_trial_idx' = -1
       ELSE UNCHANGED <<trial_data, interrupted, last_trial_idx>>
    /\ start_wait' = 0
    /\ UNCHANGED <<trials, offlineVars>>
    /\ UNCHANGED <<now, pending, trigger_time, audio_available, audio_error,
                   playback_available, detailed_log, timestamps, result,
                   task_result, loc, rec_active, chan_busy, files>>

\* the initial rest was cancelled: run_task saves what it has, returns False
rest_aborted ==
    /\ pc = "rest_aborted"
    /\ files' \in save_detailed_log(save_timestamps(files, timestamps),
                                    detailed_log, TRUE)
    /\ task_result' = "False"
    /\ pc' = "exited"
    /\ cleanup
    /\ UNCHANGED <<trials, offlineVars>>
    /\ UNCHANGED <<now, trigger_time, audio_available, audio_error, playback_available,
                   detailed_log, timestamps, trial_data, interrupted,
                   last_trial_idx, result>>

---------------------------------------------------------------------------
(* run_trial *)

\* trial number logged with the events of the running trial (trial_idx + 1)
TrialNo == last_trial_idx + 1

\* lines 413-448: locals are reset, trial_start is logged, the icon is shown
trial_start ==
    /\ pc = "trial_start"
    /\ loc' = [NoLocals EXCEPT !.trial_start_time = now]
    /\ detailed_log' = Emit(detailed_log, "trial_start", TrialNo, now)
    /\ pc' = "load_playback"
    /\ UNCHANGED <<trials, offlineVars>>
    /\ UNCHANGED <<now, pending, trigger_time, audio_available, audio_error,
                   playback_available, timestamps, trial_data, interrupted,
                   last_trial_idx, result, task_result, start_wait,
                   rec_active, chan_busy, files>>

\* a playback that could not be loaded or started switches playback off
PlaybackAvailableAfterFailure_Off(avail) == FALSE

\* lines 456-465 and 514-517: what self.playback_available is after a
\* missing file, a failed load or a failed start (none of these branches
\* assigns it)
PlaybackAvailableAfterFailure(avail) == avail

\* lines 450-465: the stimulus sound is loaded when the mixer is available
\* and the file exists; pygame.mixer.Sound may raise pygame.error
load_playback ==
    /\ pc = "load_playback"
    /\ \E exists \in BOOLEAN, loads \in BOOLEAN :
         IF playback_available /\ exists /\ loads
         THEN /\ loc' = [loc EXCEPT !.playback_sound = TRUE,
                                    !.playback_file = TRUE]
              /\ UNCHANGED playback_available
         ELSE /\ loc' = [loc EXCEPT !.playback_sound = FALSE,
                                    !.playback_file = FALSE]
              /\ playback_available' =
                     PlaybackAvailableAfterFailure(playback_available)
    /\ pc' = "start_recording"
    /\ UNCHANGED <<trials, offlineVars>>
    /\ UNCHANGED <<now, pending, trigger_time, audio_available, audio_error,
                   detailed_log, timestamps, trial_data,
                   interrupted, last_trial_idx, result, task_result,
                   start_wait, rec_active, chan_busy, files>>

\* mutant: a failed sd.rec leaves the flag as it was
AudioAvailableAfterRecError_Kept == TRUE

\* line 489: what self.audio_available becomes when sd.rec raises
AudioAvailableAfterRecError == FALSE

\* lines 467-494: the capture is started when recording is available
start_recording ==
    /\ pc = "start_recording"
    /\ IF audio_available
       THEN \E started \in BOOLEAN :
              IF started
              THEN /\ loc' = [loc EXCEPT !.recording = TRUE,
                                         !.audio_filename = TRUE]
                   /\ rec_active' = TRUE
                   /\ detailed_log' = Emit(detailed_log,
                                           "audio_recording_start", TrialNo, now)
                   /\ UNCHANGED <<audio_available, audio_error>>
              ELSE /\ audio_available' = AudioAvailableAfterRecError
                   /\ audio_error' = "rec"
                   /\ loc' = [loc EXCEPT !.recording = FALSE,
                                         !.audio_filename = FALSE]
                   /\ UNCHANGED <<rec_active, detailed_log>>
       ELSE UNCHANGED <<loc, rec_active, detailed_log, audio_available,
                        audio_error>>
    /\ pc' = "start_playback"
    /\ UNCHANGED <<trials, offlineVars>>
    /\ UNCHANGED <<now, pending, trigger_time, playback_available,
                   timestamps, trial_data, interrupted, last_trial_idx,
                   result, task_result, start_wait, chan_busy, files>>

\* lines 496-517: the mixer is stopped and the sound played; play() may
\* return a channel, return None, or raise pygame.error
start_playback ==
    /\ pc = "start_playback"
    /\ IF loc.playback_sound
       THEN \E outcome \in {"channel", "no_channel", "error"} :
              CASE outcome = "channel" ->
                     /\ loc' = [loc EXCEPT !.playback_channel = TRUE,
                                           !.playback_start_time = TRUE]
                     /\ chan_busy' = TRUE
                     /\ detailed_log' = Emit(detailed_log,
                                             "audio_playback_start", TrialNo, now)
                     /\ UNCHANGED playback_available
                [] outcome = "no_channel" ->
                     /\ chan_busy' = FALSE
                     /\ playback_available' =
                            PlaybackAvailableAfterFailure(playback_available)
                     /\ UNCHANGED <<loc, detailed_log>>
                [] outcome = "error" ->
                     /\ loc' = [loc EXCEPT !.playback_channel = FALSE,
                                           !.playback_sound = FALSE]
                     /\ chan_busy' = FALSE
                     /\ playback_available' =
                            PlaybackAvailableAfterFailure(playback_available)
                     /\ UNCHANGED detailed_log
       ELSE UNCHANGED <<loc, chan_busy, detailed_log, playback_available>>
    /\ pc' = "prompt_onset"
    /\ UNCHANGED <<trials, offlineVars>>
    /\ UNCHANGED <<now, pending, trigger_time, audio_available, audio_error,
                   timestamps, trial_data, interrupted,
                   last_trial_idx, result, task_result, start_wait,
                   rec_active, files>>

\* lines 519-533: prompt_onset is logged and the record window begins
prompt_onset ==
    /\ pc = "prompt_onset"
    /\ detailed_log' = Emit(detailed_log, "prompt_onset", TrialNo, now)
    /\ start_wait' = now
    /\ loc' = [loc EXCEPT !.playback_end_logged = FALSE]
    /\ pc' = "record_window"
    /\ UNCHANGED <<trials, offlineVars>>
    /\ UNCHANGED <<now, pending, trigger_time, audio_available, audio_error,
                   playback_available, timestamps, trial_data, interrupted,
                   last_trial_idx, result, task_result, rec_active,
                   chan_busy, files>>

\* the loop ends one tick before the window has elapsed
WindowOpen_Short(t, start) == t - start < StimulusTicks - 1

\* line 534: the condition of the record window's poll loop,
\* time.time() - stimulus_start_time < FIXED_STIMULUS_TIME
WindowOpen(t, start) == t - start < StimulusTicks

\* the poll logs the end of a playback whether or not a channel was obtained
PlaybackEndObserved_NoChannel(l, busy) == ~l.playback_end_logged /\ ~busy

\* line 551: the poll logs the end of the playback
PlaybackEndObserved(l, busy) ==
    l.playback_channel /\ ~l.playback_end_logged /\ ~busy

\* lines 534-563: one pass of the record window's poll loop
record_poll ==
    /\ pc = "record_window"
    /\ WindowOpen(now, start_wait)
    /\ pending' = "none"
    /\ IF CancelSeen(pending)
       THEN /\ rec_active' = IF loc.recording THEN FALSE ELSE rec_active
            /\ result' = ReturnedNone
            /\ pc' = "trial_return"
            /\ loc' = NoLocals
            /\ start_wait' = 0
            /\ UNCHANGED <<now, detailed_log>>
       ELSE /\ IF PlaybackEndObserved(loc, chan_busy)
               THEN /\ detailed_log' = Emit(detailed_log,
                                            "audio_playback_end", TrialNo, now)
                    /\ loc' = [loc EXCEPT !.playback_end_time = TRUE,
                                          !.playback_end_logged = TRUE]
               ELSE UNCHANGED <<detailed_log, loc>>
            /\ now' = now + 1      \* pygame.time.wait(10)
            /\ UNCHANGED <<pc, result, rec_active, start_wait>>
    /\ UNCHANGED <<trials, offlineVars>>
    /\ UNCHANGED <<trigger_time, audio_available, audio_error, playback_available,
                   timestamps, trial_data, interrupted, last_trial_idx,
                   task_result, chan_busy, files>>

\* the capture is not awaited
CaptureActiveAfterWait_NotAwaited(active) == active

\* line 569: sd.wait() returns when the capture is complete
CaptureActiveAfterWait(active) == FALSE

\* lines 565-585: the window has elapsed; the capture is awaited and written
finish_recording ==
    /\ pc = "record_window"
    /\ ~WindowOpen(now, start_wait)
    /\ IF loc.recording /\ loc.audio_filename
       THEN \E written \in BOOLEAN :
              /\ rec_active' = CaptureActiveAfterWait(rec_active)
              /\ IF written
                 THEN /\ files' = [files EXCEPT !.recordings = @ \cup {TrialNo}]
                      /\ detailed_log' = Emit(detailed_log,
                                              "audio_recording_end", TrialNo, now)
                      /\ UNCHANGED loc
                 ELSE /\ loc' = [loc EXCEPT !.audio_filename = FALSE]
                      /\ UNCHANGED <<files, detailed_log>>
       ELSE UNCHANGED <<rec_active, files, detailed_log, loc>>
    /\ pc' = "finish_playback"
    /\ UNCHANGED <<trials, offlineVars>>
    /\ UNCHANGED <<now, pending, trigger_time, audio_available, audio_error, playback_available,
                   timestamps, trial_data, interrupted, last_trial_idx,
                   result, task_result, start_wait, chan_busy>>

\* mutant: the end of the playback is logged again after the window
PlaybackEndMissing_Always(l) == l.playback_start_time

\* line 589: the end of the playback is logged after the window
PlaybackEndMissing(l) == l.playback_start_time /\ ~l.playback_end_time

\* a channel still playing is left playing
ChannelBusyAfterWindow_LeftPlaying(l, busy) == busy

\* lines 587-588: a channel still playing after the window is stopped
ChannelBusyAfterWindow(l, busy) ==
    IF l.playback_channel /\ busy THEN FALSE ELSE busy

\* lines 587-600: a channel still playing is stopped; a playback end not
\* yet seen is logged
finish_playback ==
    /\ pc = "finish_playback"
    /\ chan_busy' = ChannelBusyAfterWindow(loc, chan_busy)
    /\ IF PlaybackEndMissing(loc)
       THEN /\ detailed_log' = Emit(detailed_log,
                                    "audio_playback_end", TrialNo, now)
            /\ loc' = [loc EXCEPT !.playback_end_time = TRUE,
                                  !.playback_end_logged = TRUE]
       ELSE UNCHANGED <<detailed_log, loc>>
    /\ pc' = "fixation_onset"
    /\ UNCHANGED <<trials, offlineVars>>
    /\ UNCHANGED <<now, pending, trigger_time, audio_available, audio_error,
                   playback_available, timestamps, trial_data, interrupted,
                   last_trial_idx, result, task_result, start_wait,
                   rec_active, files>>

\* lines 602-612: fixation_onset is logged and the ITI begins
fixation_onset ==
    /\ pc = "fixation_onset"
    /\ detailed_log' = Emit(detailed_log, "fixation_onset", TrialNo, now)
    /\ start_wait' = now
    /\ pc' = "iti"
    /\ UNCHANGED <<trials, offlineVars>>
    /\ UNCHANGED <<now, pending, trigger_time, audio_available, audio_error,
                   playback_available, timestamps, trial_data, interrupted,
                   last_trial_idx, result, task_result, loc, rec_active,
                   chan_busy, files>>

\* every trial record names a recording file
TrialInfo_AlwaysNamed(l, n) ==
    [kind |-> "info", trial |-> n, recording_file |-> TRUE,
     playback_audio_file |-> l.playback_file]

\* lines 660-675: the trial record that run_trial returns
TrialInfo(l, n) ==
    [kind |-> "info", trial |-> n, recording_file |-> l.audio_filename,
     playback_audio_file |-> l.playback_file]

\* the row is put in front of the others
AddTimestamps_InFront(ts, row) == <<row>> \o ts

\* line 632: self.timestamps.append(...)
AddTimestamps(ts, row) == Append(ts, row)

\* lines 617-679: trial_end is logged, the timestamps row appended, the
\* trial record returned
trial_end ==
    /\ pc = "trial_end"
    /\ detailed_log' = Emit(detailed_log, "trial_end", TrialNo, now)
    /\ timestamps' = AddTimestamps(timestamps,
                            [trial |-> TrialNo,
                             trial_relative_start_time |-> Onset(loc.trial_start_time),
                             trial_relative_end_time |-> Onset(now)])
    /\ result' = TrialInfo(loc, TrialNo)
    /\ loc' = NoLocals
    /\ pc' = "trial_return"
    /\ UNCHANGED <<trials, offlineVars>>
    /\ UNCHANGED <<now, pending, trigger_time, audio_available, audio_error,
                   playback_available, trial_data, interrupted,
                   last_trial_idx, task_result, start_wait, rec_active,
                   chan_busy, files>>

\* a step of run_trial (lines 413-679)
TrialStep ==
    \/ trial_start
    \/ load_playback
    \/ start_recording
    \/ start_playback
    \/ prompt_onset
    \/ record_poll
    \/ finish_recording
    \/ finish_playback
    \/ fixation_onset
    \/ (pc = "iti" /\ (show_fixation_poll \/ show_fixation_elapsed))
    \/ trial_end

---------------------------------------------------------------------------
(* run_task: the trial loop and what follows it *)

\* mutant: the None returned by run_trial is not checked
LoopBreaks_Unchecked(res) == FALSE

\* lines 791-794: run_task leaves the loop when run_trial returned None
LoopBreaks(res) == res.kind = "None"

\* the loop is left with a row for the trial that returned None
RowsAfterBreak_Appended(rows, res) == Append(rows, res)

\* lines 791-794: break comes before trial_data.append, the rows stay
RowsAfterBreak(rows, res) == rows

\* the break leaves the flag as it was
InterruptedAfterBreak_Kept(intr) == intr

\* line 792: interrupted is set before the break
InterruptedAfterBreak(intr) == TRUE

\* lines 789-796: run_trial has returned
trial_return ==
    /\ pc = "trial_return"
    /\ IF LoopBreaks(result)
       THEN /\ interrupted' = InterruptedAfterBreak(interrupted)
            /\ pc' = "loop_exit"
            /\ trial_data' = RowsAfterBreak(trial_data, result)
       ELSE /\ trial_data' = Append(trial_data, result)
            /\ pc' = "loop_head"
            /\ UNCHANGED interrupted
    /\ UNCHANGED <<trials, offlineVars>>
    /\ UNCHANGED <<now, pending, trigger_time, audio_available, audio_error,
                   playback_available, detailed_log, timestamps,
                   last_trial_idx, result, task_result, loc, start_wait,
                   rec_active, chan_busy, files>>

\* lines 787-789: the for loop takes the next stimulus, or ends
loop_head ==
    /\ pc = "loop_head"
    /\ IF last_trial_idx + 1 < trials
       THEN /\ last_trial_idx' = last_trial_idx + 1
            /\ pc' = "trial_start"
       ELSE /\ pc' = "loop_exit"
            /\ UNCHANGED last_trial_idx
    /\ UNCHANGED <<trials, offlineVars>>
    /\ UNCHANGED <<now, pending, trigger_time, audio_available, audio_error,
                   playback_available, detailed_log, timestamps, trial_data,
                   interrupted, result, task_result, loc, start_wait,
                   rec_active, chan_busy, files>>

\* the except clause leaves the flag as it was
InterruptedAfterException_Kept(intr) == intr

\* line 814: the except clause sets interrupted
InterruptedAfterException(intr) == TRUE

\* lines 810-814: an exception raised inside the trial loop is caught
unexpected_exception ==
    /\ pc \in TrialPcs \cup {"trial_return", "loop_head"}
    /\ interrupted' = InterruptedAfterException(interrupted)
    /\ pc' = "loop_exit"
    /\ loc' = NoLocals
    /\ start_wait' = 0
    /\ UNCHANGED <<trials, offlineVars>>
    /\ UNCHANGED <<now, pending, trigger_time, audio_available, audio_error,
                   playback_available, detailed_log, timestamps, trial_data,
                   last_trial_idx, result, task_result, rec_active,
                   chan_busy, files>>

\* lines 816-838: experiment_end and final_long_rest are logged, the final
\* rest begins
experiment_end ==
    /\ pc = "loop_exit"
    /\ detailed_log' = Emit(Emit(detailed_log, "experiment_end", TrialNo, now),
                            "final_long_rest", TrialNo, now)
    /\ start_wait' = now
    /\ pc' = "final_rest"
    /\ UNCHANGED <<trials, offlineVars>>
    /\ UNCHANGED <<now, pending, trigger_time, audio_available, audio_error,
                   playback_available, timestamps, trial_data, interrupted,
                   last_trial_idx, result, task_result, loc, rec_active,
                   chan_busy, files>>

\* mutant: the log is saved with the default interrupted=False
FinalFlag_Default(intr) == FALSE

\* line 853: the flag run_task hands to save_detailed_log
FinalFlag(intr) == intr

\* lines 841-853: timestamps, trial rows and the event log are written
finalize ==
    /\ pc = "finalize"
    /\ \E f \in save_detailed_log(save_timestamps(files, timestamps),
                                  detailed_log, FinalFlag(interrupted)) :
         files' = IF trial_data # <<>>
                  THEN [f EXCEPT !.csv_rows = trial_data] ELSE f
    /\ pc' = "end_screen"
    /\ UNCHANGED <<trials, offlineVars>>
    /\ UNCHANGED <<now, pending, trigger_time, audio_available, audio_error,
                   playback_available, detailed_log, timestamps, trial_data,
                   interrupted, last_trial_idx, result, task_result, loc,
                   start_wait, rec_active, chan_busy>>

\* lines 855-865: the end screen is shown for 3 s, run_task returns
end_screen ==
    /\ pc = "end_screen"
    /\ task_result' = IF interrupted THEN "False" ELSE "True"
    /\ pc' = "exited"
    /\ cleanup
    /\ UNCHANGED <<trials, offlineVars>>
    /\ UNCHANGED <<now, trigger_time, audio_available, audio_error, playback_available,
                   detailed_log, timestamps, trial_data, interrupted,
                   last_trial_idx, result, files>>

---------------------------------------------------------------------------
(* run: the exceptions that leave run_task *)

\* where an exception leaves run_task: KeyboardInterrupt anywhere (it is no
\* Exception, so line 810 lets it pass), any exception outside the trial loop
EscapesRunTask(p) == p \notin {"exited"}

\* lines 881-892: run saves the timestamps and the log, returns False
run_except ==
    /\ EscapesRunTask(pc)
    /\ files' \in save_detailed_log(save_timestamps(files, timestamps),
                                    detailed_log, TRUE)
    /\ task_result' = "False"
    /\ pc' = "exited"
    /\ cleanup
    /\ UNCHANGED <<trials, offlineVars>>
    /\ UNCHANGED <<now, trigger_time, audio_available, audio_error, playback_available,
                   detailed_log, timestamps, trial_data, interrupted,
                   last_trial_idx, result>>

---------------------------------------------------------------------------
(* The session *)

SessionInit ==
    /\ pc = "initialize_audio"
    /\ now = 1
    /\ pending = "none"
    /\ trigger_time = 0
    /\ audio_available = FALSE
    /\ audio_error = "none"
    /\ playback_available = FALSE
    /\ detailed_log = <<>>
    /\ timestamps = <<>>
    /\ trial_data = <<>>
    /\ interrupted = FALSE
    /\ last_trial_idx = -1
    /\ result = NoResult
    /\ task_result = "unset"
    /\ loc = NoLocals
    /\ start_wait = 0
    /\ rec_active = FALSE
    /\ chan_busy = FALSE
    /\ files = NoFiles
    /\ trials = NumTrials

SessionNext ==
    \/ UserCancel
    \/ PlaybackFinishes
    \/ initialize_audio
    \/ initialize_playback
    \/ show_instructions
    \/ wait_for_trigger
    \/ experiment_start
    \/ show_fixation_poll
    \/ show_fixation_elapsed
    \/ rest_aborted
    \/ trial_start
    \/ load_playback
    \/ start_recording
    \/ start_playback
    \/ prompt_onset
    \/ record_poll
    \/ finish_recording
    \/ finish_playback
    \/ fixation_onset
    \/ trial_end
    \/ trial_return
    \/ loop_head
    \/ unexpected_exception
    \/ experiment_end
    \/ finalize
    \/ end_screen
    \/ run_except

OfflineIdle ==
    /\ a_pc = "idle"
    /\ args = None
    /\ df = <<>>
    /\ records = <<>>
    /\ onset_ms = None
    /\ resorted = <<>>

vars == <<sessionVars, offlineVars>>

Init == SessionInit /\ OfflineIdle

Next == SessionNext

Spec == Init /\ [][Next]_vars

\* a step of the program itself: each call returns and each loop pass ends
\* as long as the clock advances; the participant's cancel, the end of the
\* sound and the exceptions are not among them
ProgramStep ==
    \/ initialize_audio
    \/ initialize_playback
    \/ show_instructions
    \/ wait_for_trigger
    \/ experiment_start
    \/ show_fixation_poll
    \/ show_fixation_elapsed
    \/ rest_aborted
    \/ TrialStep
    \/ trial_return
    \/ loop_head
    \/ experiment_end
    \/ finalize
    \/ end_screen

\* the session with a program that keeps running
SpecFair == Init /\ [][Next]_vars /\ WF_vars(ProgramStep)

---------------------------------------------------------------------------
(* analyze_latency.py: detect_onset_after *)

Min(a, b) == IF a <= b THEN a ELSE b
Max(a, b) == IF a >= b THEN a ELSE b

\* Python's round(num / den) for den > 0: the nearest integer, a half going
\* to the even neighbour
RoundHalfEven(num, den) ==
    LET q == num \div den
        r == num % den
    IN  IF 2 * r < den THEN q
        ELSE IF 2 * r > den THEN q + 1
        ELSE IF q % 2 = 0 THEN q ELSE q + 1

\* the scan starts at the first frame of the recording
StartIdx_FromRecordingStart(n, sample_rate, start_ms) == 0

\* lines 101-102: the frame the scan starts at; start_ms is in quarter-ms,
\* so start_ms / 1000.0 * sample_rate is start_ms * sample_rate / 4000
StartIdx(n, sample_rate, start_ms) ==
    Min(n, Max(0, RoundHalfEven(start_ms * sample_rate, 4000)))

\* a frame counts when its energy reaches the threshold
AboveThreshold_OrEqual(e, threshold_db) == e >= threshold_db

\* line 104: a frame counts when its energy exceeds the threshold
AboveThreshold(e, threshold_db) == e > threshold_db

\* lines 106-113: the loop over above, from its (1-based) position i on;
\* the result is the 0-based position found, or None
RECURSIVE ScanOnset(_, _, _)
ScanOnset(above, min_frames, i) ==
    IF i > Len(above) THEN None
    ELSE IF ~above[i] THEN ScanOnset(above, min_frames, i + 1)
    ELSE IF (i - 1) + min_frames > Len(above) THEN None
    ELSE IF \A j \in i..(i + min_frames - 1) : above[j] THEN Some(i - 1)
    ELSE ScanOnset(above, min_frames, i + 1)

\* the onset is put two frame lengths behind the frame's first sample
FrameCentreMs_Late(onset_idx, frame_length, sample_rate) ==
    ((2 * onset_idx + 4 * frame_length) * 2000) \div sample_rate

\* lines 118-119: the centre of frame onset_idx, in quarter-ms:
\* (onset_idx + frame_length / 2.0) / sample_rate * 1000.0
FrameCentreMs(onset_idx, frame_length, sample_rate) ==
    ((2 * onset_idx + frame_length) * 2000) \div sample_rate

\* lines 92-120; energy_db[k + 1] is the energy of frame k
detect_onset_after(energy_db, sample_rate, frame_length, start_ms, threshold_db, min_frames) ==
    LET start_idx == StartIdx(Len(energy_db), sample_rate, start_ms)
        above == [i \in 1..(Len(energy_db) - start_idx) |->
                     AboveThreshold(energy_db[start_idx + i], threshold_db)]
        found == ScanOnset(above, min_frames, 1)
    IN  IF found = None THEN None
        ELSE Some(FrameCentreMs(start_idx + found[1], frame_length, sample_rate))

---------------------------------------------------------------------------
(* analyze_latency.py: analyze *)

\* line 85: the frame length in samples; frame_ms is in quarter-ms
FrameLength(sample_rate, frame_ms) ==
    Max(1, RoundHalfEven(sample_rate * frame_ms, 4000))

\* the rows of a sequence in ascending order
RECURSIVE SortedInts(_)
SortedInts(xs) ==
    IF xs = <<>> THEN <<>>
    ELSE LET x == xs[Len(xs)]
             rest == SortedInts(SubSeq(xs, 1, Len(xs) - 1))
             k == Cardinality({i \in 1..Len(rest) : rest[i] <= x})
         IN  SubSeq(rest, 1, k) \o <<x>> \o SubSeq(rest, k + 1, Len(rest))

\* np.percentile(xs, 75): linear interpolation at position 0.75 * (n - 1) of
\* the sorted values (exact here: energies are whole dB, kept in quarter-dB)
Percentile75(xs) ==
    LET sorted == SortedInts(xs)
        pos4 == 3 * (Len(xs) - 1)
        lo == pos4 \div 4
        frac4 == pos4 % 4
    IN  IF frac4 = 0 THEN sorted[lo + 1]
        ELSE sorted[lo + 1] + (frac4 * (sorted[lo + 2] - sorted[lo + 1])) \div 4

\* line 220: energy_db[: int(max(1, playback_end_rel / 1000.0 * sample_rate))]
PreRegion(energy_db, playback_end_rel, sample_rate) ==
    SubSeq(energy_db, 1,
           Min(Len(energy_db), Max(1, (playback_end_rel * sample_rate) \div 4000)))

\* the lower of the two thresholds
DynamicThreshold_Lenient(threshold_db, noise_db) ==
    Min(threshold_db - 20, noise_db + 24)

\* line 224: max(threshold_db - 5.0, noise_db + 6.0), in quarter-dB
DynamicThreshold(threshold_db, noise_db) ==
    Max(threshold_db - 20, noise_db + 24)

\* the fallback pass is never taken
FallbackNeeded_Never(onset, pre_region) == FALSE

\* line 221: the fallback pass is taken
FallbackNeeded(onset, pre_region) == onset = None /\ Len(pre_region) > 0

\* sf.read raising is not caught
ReadOutcome_Uncaught(wav) ==
    CASE wav.state = "missing"    -> "missing"
      [] wav.state = "unreadable" -> "raise"
      [] wav.state = "empty"      -> "raise"
      [] wav.state = "ok"         -> "ok"

\* lines 183-200: what reading the row's WAV file leads to.  A file that is
\* not there gives "missing"; sf.read raising gives "read_error"; a file
\* read with no samples makes np.convolve raise ValueError, which nothing
\* in analyze catches
ReadOutcome(wav) ==
    CASE wav.state = "missing"    -> "missing"
      [] wav.state = "unreadable" -> "read_error"
      [] wav.state = "empty"      -> "raise"
      [] wav.state = "ok"         -> "ok"

\* lines 169-181: the row's own fields, and the result fields at their
\* defaults
InitialResult(row) ==
    [ trial                         |-> row.trial,
      playback_end_ms               |-> row.playback_end_ms,
      recording_start_ms            |-> row.recording_start_ms,
      audio_path                    |-> row.wav,
      playback_end_ms_rel           |-> None,
      latency_ms_from_playback_end  |-> None,
      onset_ms_from_recording_start |-> None,
      dynamic_threshold_db          |-> None,
      fallback_used                 |-> None,
      status                        |-> "ok",
      note                          |-> "" ]

\* an undetected row reports a latency of zero
WithOnset_ZeroLatency(res, onset, playback_end_rel) ==
    IF onset = None
    THEN [res EXCEPT !.status = "no_speech_detected",
                     !.latency_ms_from_playback_end = Some(0),
                     !.note = "No onset above threshold after playback end"]
    ELSE [res EXCEPT !.onset_ms_from_recording_start = onset,
                     !.latency_ms_from_playback_end =
                         Some(onset[1] - playback_end_rel),
                     !.note = ""]

\* lines 239-245: status, onset and latency of an analysed row
WithOnset(res, onset, playback_end_rel) ==
    IF onset = None
    THEN [res EXCEPT !.status = "no_speech_detected",
                     !.note = "No onset above threshold after playback end"]
    ELSE [res EXCEPT !.onset_ms_from_recording_start = onset,
                     !.latency_ms_from_playback_end =
                         Some(onset[1] - playback_end_rel),
                     !.note = ""]

\* lines 200-245: a row whose WAV file was read.  The energy contour that
\* rolling_energy_db computes from the samples is what the model keeps of
\* the file.
AnalyzeSignal(row, a) ==
    LET energy_db == row.wav.energy_db
        sample_rate == row.wav.sample_rate
        frame_length == FrameLength(sample_rate, a.frame_ms)
        playback_end_rel == Max(0, row.playback_end_ms - row.recording_start_ms)
        start_ms == playback_end_rel + a.guard_ms
        primary == detect_onset_after(energy_db, sample_rate, frame_length,
                                      start_ms, a.threshold_db, a.min_frames)
        pre_region == PreRegion(energy_db, playback_end_rel, sample_rate)
        fallback_used == FallbackNeeded(primary, pre_region)
        dynamic_threshold ==
            IF fallback_used
            THEN DynamicThreshold(a.threshold_db, Percentile75(pre_region))
            ELSE a.threshold_db
        onset ==
            IF fallback_used
            THEN detect_onset_after(energy_db, sample_rate, frame_length,
                                    start_ms, dynamic_threshold, a.min_frames)
            ELSE primary
    IN  WithOnset([InitialResult(row) EXCEPT
                      !.playback_end_ms_rel = Some(playback_end_rel),
                      !.dynamic_threshold_db = Some(dynamic_threshold),
                      !.fallback_used = Some(fallback_used)],
                  onset, playback_end_rel)

\* lines 167-277: the result row of one pass of the loop that does not raise
AnalyzeRow(row, a) ==
    CASE ReadOutcome(row.wav) = "missing" ->
           [InitialResult(row) EXCEPT !.status = "missing",
                                      !.note = "WAV not found"]
      [] ReadOutcome(row.wav) = "read_error" ->
           [InitialResult(row) EXCEPT !.status = "read_error",
                                      !.note = "read error: sf.read"]
      [] OTHER -> AnalyzeSignal(row, a)

\* the result row is put in front of the others
AddRecord_InFront(recs, r) == <<r>> \o recs

\* lines 186, 195, 277: records.append(result)
AddRecord(recs, r) == Append(recs, r)

\* one pass of the loop of analyze (lines 167-277)
analyze_row ==
    /\ a_pc = "rows"
    /\ Len(records) < Len(df)
    /\ LET row == df[Len(records) + 1]
       IN  IF ReadOutcome(row.wav) = "raise"
           THEN /\ a_pc' = "raised"
                /\ UNCHANGED records
           ELSE /\ records' = AddRecord(records, AnalyzeRow(row, args))
                /\ UNCHANGED a_pc
    /\ UNCHANGED <<args, df, onset_ms, resorted>>
    /\ UNCHANGED sessionVars

\* lines 279-285: the loop is over, the records become the returned frame
analyze_return ==
    /\ a_pc = "rows"
    /\ Len(records) = Len(df)
    /\ a_pc' = "done"
    /\ UNCHANGED <<args, df, records, onset_ms, resorted>>
    /\ UNCHANGED sessionVars

\* a call of detect_onset_after on its own
detect_call ==
    /\ a_pc = "detect"
    /\ onset_ms' = detect_onset_after(args.energy_db, args.sample_rate,
                                      args.frame_length, args.start_ms,
                                      args.threshold_db, args.min_frames)
    /\ a_pc' = "detected"
    /\ UNCHANGED <<args, df, records, resorted>>
    /\ UNCHANGED sessionVars

---------------------------------------------------------------------------
(* analyze_latency.py: rolling_energy_db *)

\* the energy is floored at 1e-3 (-30 dB)
EnergyDb_HighFloor(num, den) ==
    CASE num = 0           -> -120
      [] num = den         -> 0
      [] 2 * num = den     -> -12
      [] 3 * num = den     -> -19
      [] 3 * num = 2 * den -> -7
      [] 4 * num = den     -> -24
      [] 4 * num = 3 * den -> -5

\* line 88: 10.0 * np.log10(np.maximum(energy, 1e-12)) of the mean power
\* num / den, in quarter-dB rounded to the nearest: 0 gives the floor of
\* -120 dB, 1/4 gives -6.02 dB, 1/3 -4.77 dB, 1/2 -3.01 dB, 2/3 -1.76 dB,
\* 3/4 -1.25 dB, 1 gives 0 dB
EnergyDb(num, den) ==
    CASE num = 0           -> -480
      [] num = den         -> 0
      [] 2 * num = den     -> -12
      [] 3 * num = den     -> -19
      [] 3 * num = 2 * den -> -7
      [] 4 * num = den     -> -24
      [] 4 * num = 3 * den -> -5

\* the sum of the squares of samples from..to; a sample is 0 (silence) or 1
\* (full scale)
RECURSIVE SumSquares(_, _, _)
SumSquares(signal, from, to) ==
    IF from > to THEN 0
    ELSE signal[from] * signal[from] + SumSquares(signal, from + 1, to)

\* lines 84-89: np.convolve(np.square(signal), window, mode="valid") has one
\* frame per position of the window inside the signal; frame k (from 0) is
\* the mean power of samples k .. k + frame_length - 1
rolling_energy_db(signal, frame_length) ==
    [k \in 1..(Len(signal) - frame_length + 1) |->
        EnergyDb(SumSquares(signal, k, k + frame_length - 1), frame_length)]

\* lines 190-277 for a row whose WAV file holds samples
analyze_recording ==
    /\ a_pc = "signal"
    /\ LET row == df[1]
           frame_length == FrameLength(row.wav.sample_rate, args.frame_ms)
           read == [row EXCEPT !.wav.energy_db =
                        rolling_energy_db(row.wav.samples, frame_length)]
       IN  records' = AddRecord(records, AnalyzeRow(read, args))
    /\ a_pc' = "done"
    /\ UNCHANGED <<args, df, onset_ms, resorted>>
    /\ UNCHANGED sessionVars

---------------------------------------------------------------------------
(* The inputs of the offline analysis *)

\* energies in quarter-dB: the -120 dB floor, -42 dB, -30 dB
EnergyLevels == {-480, -168, -120}

EnergyContours == UNION {[1..n -> EnergyLevels] : n \in 1..MaxFrames}

SampleRates == {1000, 2000}

\* --threshold-db in quarter-dB: -35 dB, -36 dB, -40 dB (the default) and
\* -42 dB
Thresholds == {-140, -144, -160, -168}

\* --guard-ms in quarter-ms: 0 and 1.5 ms
Guards == {0, 6}

\* --frame-ms in quarter-ms: 1 ms and 1.5 ms
FrameMs == {4, 6}

\* playback_end_ms and recording_start_ms of a row, in quarter-ms
Timings == { <<0, 0>>, <<4, 0>>, <<8, 0>>, <<4, 8>>, <<14, 4>> }

AnalyzeArgs ==
    [threshold_db : Thresholds, frame_ms : FrameMs,
     min_frames : 1..MaxMinFrames, guard_ms : Guards]

NoEnergy == <<>>

\* WAV files: not there, not readable, read with no samples, read
FaultyWavs ==
    { [state |-> st, sample_rate |-> 1000, energy_db |-> NoEnergy]
      : st \in {"missing", "unreadable", "empty"} }

Wavs ==
    FaultyWavs \cup
    [state : {"ok"}, sample_rate : SampleRates, energy_db : EnergyContours]

\* a few WAV files for the tables of several rows
FewWavs ==
    FaultyWavs \cup
    { [state |-> "ok", sample_rate |-> 1000, energy_db |-> e]
      : e \in { <<-480, -480>>, <<-480, -120, -120>>, <<-168, -480, -168, -168>> } }

Row(n, t, w) ==
    [trial |-> n, playback_end_ms |-> t[1], recording_start_ms |-> t[2],
     wav |-> w]

\* the results CSVs: one row of any kind, or up to MaxRows rows of few kinds
Tables ==
    { <<Row(1, t, w)>> : t \in Timings, w \in Wavs }
    \cup UNION { { [i \in 1..n |-> Row(i, <<4, 0>>, ws[i])] : ws \in [1..n -> FewWavs] }
                 : n \in 0..MaxRows }

\* start_ms handed to detect_onset_after, in quarter-ms
StartTimes == {0, 2, 4, 6, 10, 12, 40}

DetectArgs ==
    [energy_db : EnergyContours, sample_rate : SampleRates,
     frame_length : 1..3, start_ms : StartTimes,
     threshold_db : Thresholds, min_frames : 1..MaxMinFrames]

---------------------------------------------------------------------------
(* The end-to-end scenario of the session *)

\* the session of the end-to-end scenario: four stimuli
EndToEndInit ==
    /\ pc = "initialize_audio"
    /\ now = 1
    /\ pending = "none"
    /\ trigger_time = 0
    /\ audio_available = FALSE
    /\ audio_error = "none"
    /\ playback_available = FALSE
    /\ detailed_log = <<>>
    /\ timestamps = <<>>
    /\ trial_data = <<>>
    /\ interrupted = FALSE
    /\ last_trial_idx = -1
    /\ result = NoResult
    /\ task_result = "unset"
    /\ loc = NoLocals
    /\ start_wait = 0
    /\ rec_active = FALSE
    /\ chan_busy = FALSE
    /\ files = NoFiles
    /\ trials = 4
    /\ OfflineIdle

\* the participant cancels while the third trial runs
CancelInThirdTrial ==
    /\ TrialNo = 3
    /\ pc \in TrialPcs
    /\ UserCancel

\* the scenario has no cancel outside the third trial and no exception
EndToEndNext ==
    \/ CancelInThirdTrial
    \/ PlaybackFinishes
    \/ initialize_audio
    \/ initialize_playback
    \/ show_instructions
    \/ wait_for_trigger
    \/ experiment_start
    \/ show_fixation_poll
    \/ show_fixation_elapsed
    \/ trial_start
    \/ load_playback
    \/ start_recording
    \/ start_playback
    \/ prompt_onset
    \/ record_poll
    \/ finish_recording
    \/ finish_playback
    \/ fixation_onset
    \/ trial_end
    \/ trial_return
    \/ loop_head
    \/ experiment_end
    \/ finalize
    \/ end_screen

SpecEndToEnd == EndToEndInit /\ [][EndToEndNext]_vars

---------------------------------------------------------------------------
(* The offline analysis as specifications *)

\* no session runs while the offline analysis does
SessionIdle ==
    /\ pc = "exited"
    /\ now = 1
    /\ pending = "none"
    /\ trigger_time = 0
    /\ audio_available = FALSE
    /\ audio_error = "none"
    /\ playback_available = FALSE
    /\ detailed_log = <<>>
    /\ timestamps = <<>>
    /\ trial_data = <<>>
    /\ interrupted = FALSE
    /\ last_trial_idx = -1
    /\ result = NoResult
    /\ task_result = "unset"
    /\ loc = NoLocals
    /\ start_wait = 0
    /\ rec_active = FALSE
    /\ chan_busy = FALSE
    /\ files = NoFiles
    /\ trials = NumTrials

\* analyze, called with any of the arguments on any of the tables
AnalyzeInit ==
    /\ SessionIdle
    /\ a_pc = "rows"
    /\ args \in AnalyzeArgs
    /\ df \in Tables
    /\ records = <<>>
    /\ onset_ms = None
    /\ resorted = <<>>

AnalyzeNext == analyze_row \/ analyze_return

SpecAnalyze == AnalyzeInit /\ [][AnalyzeNext]_vars

\* silence samples of silence, then burst samples at full scale, then tail
\* samples of silence
Signal(silence, burst, tail) ==
    [i \in 1..(silence + burst + tail) |->
        IF i > silence /\ i <= silence + burst THEN 1 ELSE 0]

\* recordings: up to MaxSilence samples of silence, a burst of up to
\* MaxBurst samples, and silence or nothing after it; each is at least as
\* long as the longest frame
Recordings ==
    { [state |-> "ok", sample_rate |-> sr, energy_db |-> NoEnergy,
       samples |-> Signal(sil, b, t)]
      : sr \in SampleRates,
        sil \in 0..MaxSilence,
        b \in {0} \cup 4..MaxBurst,
        t \in 0..1 }

\* --frame-ms in quarter-ms: 1 ms, 1.5 ms and 2 ms
SignalFrameMs == {4, 6, 8}

\* the arguments of the scans of the recordings: --min-frames is the
\* program's default of 4
SignalArgs ==
    [threshold_db : Thresholds, frame_ms : SignalFrameMs,
     min_frames : {4}, guard_ms : Guards]

\* analyze, called on a results CSV of one row whose WAV file holds samples
SignalInit ==
    /\ SessionIdle
    /\ a_pc = "signal"
    /\ args \in SignalArgs
    /\ \E t \in Timings, w \in Recordings :
         /\ Len(w.samples) >= 4
         /\ df = <<Row(1, t, w)>>
    /\ records = <<>>
    /\ onset_ms = None
    /\ resorted = <<>>

SignalNext == analyze_recording

SpecSignal == SignalInit /\ [][SignalNext]_vars

\* detect_onset_after, called with any of the arguments
DetectInit ==
    /\ SessionIdle
    /\ a_pc = "detect"
    /\ args \in DetectArgs
    /\ df = <<>>
    /\ records = <<>>
    /\ onset_ms = None
    /\ resorted = <<>>

DetectNext == detect_call

SpecDetect == DetectInit /\ [][DetectNext]_vars

\* save_detailed_log on its own: the timeline is written
log_save ==
    /\ a_pc = "log"
    /\ files' \in save_detailed_log(files, detailed_log, FALSE)
    /\ a_pc' = "log_saved"
    /\ UNCHANGED <<pc, now, pending, trigger_time, audio_available,
                   audio_error, playback_available, detailed_log, timestamps,
                   trial_data, interrupted, last_trial_idx, result,
                   task_result, loc, start_wait, rec_active, chan_busy,
                   trials>>
    /\ UNCHANGED <<args, df, records, onset_ms, resorted>>

\* the rows of the written file are sorted by onset once more
log_resort ==
    /\ a_pc = "log_saved"
    /\ resorted' \in sort_values(files.log_rows)
    /\ a_pc' = "log_resorted"
    /\ UNCHANGED <<args, df, records, onset_ms>>
    /\ UNCHANGED sessionVars

LogEvents ==
    [event_type : {"trial_start", "trial_end"}, trial : {1}, onset : 0..2]

\* the timelines: any events in any order
Logs == UNION {[1..n -> LogEvents] : n \in 0..MaxLogLen}

LogInit ==
    /\ pc = "exited"
    /\ now = 1
    /\ pending = "none"
    /\ trigger_time = 0
    /\ audio_available = FALSE
    /\ audio_error = "none"
    /\ playback_available = FALSE
    /\ detailed_log \in Logs
    /\ timestamps = <<>>
    /\ trial_data = <<>>
    /\ interrupted = FALSE
    /\ last_trial_idx = -1
    /\ result = NoResult
    /\ task_result = "unset"
    /\ loc = NoLocals
    /\ start_wait = 0
    /\ rec_active = FALSE
    /\ chan_busy = FALSE
    /\ files = NoFiles
    /\ trials = NumTrials
    /\ a_pc = "log"
    /\ args = None
    /\ df = <<>>
    /\ records = <<>>
    /\ onset_ms = None
    /\ resorted = <<>>

LogNext == log_save \/ log_resort

SpecLog == LogInit /\ [][LogNext]_vars

---------------------------------------------------------------------------
(* Claims about the session *)

\* the events of one type and trial in a log
EventsOf(log, type, trial) ==
    {i \in 1..Len(log) : log[i].event_type = type /\ log[i].trial = trial}

\* the events of one type in a log
EventsOfType(log, type) ==
    {i \in 1..Len(log) : log[i].event_type = type}

\* how often a row occurs in a sequence
Count(rows, e) == Cardinality({i \in 1..Len(rows) : rows[i] = e})

\* the two sequences hold the same rows, each as often
IsPermutation(a, b) ==
    /\ Len(a) = Len(b)
    /\ \A i \in 1..Len(a) : Count(a, a[i]) = Count(b, a[i])

\* a pass of a poll loop of run_trial sees QUIT or ESC
TrialPollSeesCancel ==
    /\ pc \in {"record_window", "iti"}
    /\ CancelSeen(pending)
    /\ pending' = "none"
    /\ pc' # "exited"

\* C1: when run_trial sees a cancel signal in the record window's poll loop
\* or in the ITI fixation it returns None (no trial record, no timestamps
\* row), run_task appends no row for that trial, and from then on no trial
\* is started: the trial index, the rows and the trial_start events stay as
\* they are and control never re-enters run_trial.
C1_CancelEndsSession ==
    [][ /\ TrialPollSeesCancel =>
             /\ result'.kind = "None"
             /\ pc' = "trial_return"
             /\ trial_data' = trial_data
             /\ timestamps' = timestamps
        /\ result.kind = "None" =>
             /\ result'.kind = "None"
             /\ trial_data' = trial_data
             /\ last_trial_idx' = last_trial_idx
             /\ pc' \notin TrialPcs
             /\ EventsOfType(detailed_log', "trial_start")
                  = EventsOfType(detailed_log, "trial_start") ]_vars

\* C1 witness: the first trial was cancelled in its ITI, the session has
\* ended with no trial row and the second trial never started
C1_Witness ==
    /\ pc = "exited"
    /\ result.kind = "None"
    /\ EventsOf(detailed_log, "fixation_onset", 1) # {}
    /\ EventsOf(detailed_log, "trial_end", 1) = {}
    /\ trial_data = <<>>
    /\ last_trial_idx + 1 < NumTrials
    /\ files.log_written

C3_RecordingFailureSticky ==
    [][ /\ ( /\ pc = "start_recording"
             /\ pc' = "start_playback"
             /\ audio_available
             /\ ~loc'.recording ) => ~audio_available'
        /\ (pc # "initialize_audio" /\ ~audio_available) =>
             /\ ~audio_available'
             /\ rec_active' => rec_active
             /\ EventsOfType(detailed_log', "audio_recording_start")
                  = EventsOfType(detailed_log, "audio_recording_start") ]_vars

\* C3 witness: sd.rec failed in the first trial and the second trial has
\* passed the point where it would start its recording
C3_Witness ==
    /\ audio_error = "rec"
    /\ last_trial_idx = 1
    /\ pc = "prompt_onset"
    /\ ~audio_available
    /\ EventsOfType(detailed_log, "audio_recording_start") = {}

\* C4: when the program has ended after the trigger, the detailed log is on
\* disk and holds every event captured; its interrupted column is true when
\* run returned False (cancel in the initial rest, cancel or exception in a
\* trial, exception caught by run) and false when run returned True, which
\* it does only when every trial completed.
C4_PartialPersistence ==
    /\ (pc = "exited" /\ detailed_log # <<>>) =>
          /\ files.log_written
          /\ IsPermutation(files.log_rows, detailed_log)
          /\ files.log_flag = (task_result = "False")
    /\ (pc = "exited" /\ interrupted) => task_result = "False"
    /\ task_result = "True" =>
          /\ Len(trial_data) = NumTrials
          /\ ~interrupted

\* C4 witness: the second trial was cut short after the first completed;
\* the log on disk is flagged and holds the events of both
C4_Witness ==
    /\ pc = "exited"
    /\ interrupted
    /\ Len(trial_data) = 1
    /\ files.log_written
    /\ files.log_flag
    /\ EventsOf(files.log_rows, "trial_start", 2) # {}
    /\ EventsOf(files.log_rows, "experiment_end", 2) # {}

---------------------------------------------------------------------------
(* Claims about the offline analysis *)

\* the frames (counted from 0) at or after frame from at which min_frames
\* frames exist that all exceed the threshold
QualifyingFrames(energy_db, from, threshold_db, min_frames) ==
    {i \in from..(Len(energy_db) - 1) :
        /\ i + min_frames <= Len(energy_db)
        /\ \A j \in i..(i + min_frames - 1) : energy_db[j + 1] > threshold_db}

SmallestOf(S) == CHOOSE x \in S : \A y \in S : x <= y

\* the onset the contract asks for: the centre of the smallest qualifying
\* frame, in quarter-ms, or None when no frame qualifies
ExpectedOnset(energy_db, sample_rate, frame_length, start_ms, threshold_db, min_frames) ==
    LET Q == QualifyingFrames(energy_db,
                              StartIdx(Len(energy_db), sample_rate, start_ms),
                              threshold_db, min_frames)
    IN  IF Q = {} THEN None
        ELSE Some(((2 * SmallestOf(Q) + frame_length) * 2000) \div sample_rate)

\* C5: detect_onset_after returns the centre of the smallest frame i at or
\* after the start index such that frames i .. i+min_frames-1 all exist and
\* all exceed the threshold strictly, (i + frame_length/2) / sample_rate *
\* 1000 ms, and returns None exactly when there is no such frame.
C5_FirstQualifyingFrame ==
    a_pc = "detected" =>
        onset_ms = ExpectedOnset(args.energy_db, args.sample_rate,
                                 args.frame_length, args.start_ms,
                                 args.threshold_db, args.min_frames)

\* a frame before the start and a lone frame at the threshold are passed
\* over, the onset is the centre of frame 2: (2 + 1/2) ms
C5_Witness ==
    /\ a_pc = "detected"
    /\ args.energy_db = <<-120, -168, -120, -120>>
    /\ args.threshold_db = -168
    /\ args.min_frames = 2
    /\ args.sample_rate = 1000
    /\ args.frame_length = 1
    /\ args.start_ms = 4
    /\ onset_ms = Some(10)

\* the rows of the table whose WAV file was read and analysed
AnalysedRows == {i \in 1..Len(records) : df[i].wav.state = "ok"}

PlaybackEndRel(row) == Max(0, row.playback_end_ms - row.recording_start_ms)

\* the onset the contract asks of row i under a threshold
ExpectedRowOnset(i, threshold_db) ==
    ExpectedOnset(df[i].wav.energy_db, df[i].wav.sample_rate,
                  FrameLength(df[i].wav.sample_rate, args.frame_ms),
                  PlaybackEndRel(df[i]) + args.guard_ms,
                  threshold_db, args.min_frames)

\* the 75th percentile of the energy before the end of the playback
NoiseFloor(i) ==
    Percentile75(PreRegion(df[i].wav.energy_db, PlaybackEndRel(df[i]),
                           df[i].wav.sample_rate))

\* C6: the fallback pass runs exactly when the primary pass finds no onset;
\* its threshold is max(threshold_db - 5, noise_floor + 6), so never below
\* noise_floor + 6 dB; when the primary pass succeeds fallback_used is false
\* and dynamic_threshold_db is threshold_db.
C6_FallbackThreshold ==
    \A i \in AnalysedRows :
        LET r == records[i]
            primary == ExpectedRowOnset(i, args.threshold_db)
            d == r.dynamic_threshold_db[1]
        IN  /\ r.dynamic_threshold_db # None
            /\ r.fallback_used = Some(primary = None)
            /\ primary # None =>
                 /\ d = args.threshold_db
                 /\ r.onset_ms_from_recording_start = primary
            /\ primary = None =>
                 /\ d >= NoiseFloor(i) + 24
                 /\ d >= args.threshold_db - 20
                 /\ d \in {NoiseFloor(i) + 24, args.threshold_db - 20}
                 /\ r.onset_ms_from_recording_start = ExpectedRowOnset(i, d)

\* the primary pass finds nothing above -40 dB, the fallback finds the frames
\* at -42 dB above its threshold of -45 dB
C6_Witness ==
    /\ Len(records) = 1
    /\ df[1].wav.state = "ok"
    /\ args.threshold_db = -160
    /\ records[1].fallback_used = Some(TRUE)
    /\ records[1].dynamic_threshold_db = Some(-180)
    /\ records[1].status = "ok"
    /\ NoiseFloor(1) = -480

\* C7: no detected onset, of the primary or of the fallback pass, lies at a
\* frame before the start index of start_ms = playback_end_rel + guard_ms,
\* so every reported latency is at least guard_ms, whatever the frames
\* before start_ms hold.
C7_OnsetAfterGuard ==
    \A i \in AnalysedRows :
        records[i].latency_ms_from_playback_end # None =>
            LET r == records[i]
                sample_rate == df[i].wav.sample_rate
                start_ms == PlaybackEndRel(df[i]) + args.guard_ms
                twice_idx == (r.onset_ms_from_recording_start[1] * sample_rate)
                                 \div 2000
                             - FrameLength(sample_rate, args.frame_ms)
            IN  /\ twice_idx >= 2 * RoundHalfEven(start_ms * sample_rate, 4000)
                /\ r.onset_ms_from_recording_start[1] >= start_ms
                /\ r.latency_ms_from_playback_end[1] >= args.guard_ms

\* the first frame, before start_ms, exceeds the threshold; the onset is
\* found at the start index and the latency is exactly the guard
C7_Witness ==
    /\ Len(records) = 1
    /\ df[1].wav.state = "ok"
    /\ args.guard_ms = 6
    /\ PlaybackEndRel(df[1]) = 4
    /\ df[1].wav.energy_db[1] > args.threshold_db
    /\ records[1].latency_ms_from_playback_end = Some(6)

\* C8: in every result row the latency is None iff the onset is None iff the
\* status is not ok; an analysed row without an onset has status
\* no_speech_detected and latency None, one with an onset has latency =
\* onset - playback_end_rel.
C8_LatencyOnsetStatus ==
    \A i \in 1..Len(records) :
        LET r == records[i]
            detected == r.onset_ms_from_recording_start # None
        IN  /\ (r.latency_ms_from_playback_end = None) <=> ~detected
            /\ ~detected <=> (r.status # "ok")
            /\ (i \in AnalysedRows /\ ~detected) =>
                   r.status = "no_speech_detected"
            /\ r.status = "no_speech_detected" =>
                   /\ i \in AnalysedRows
                   /\ r.latency_ms_from_playback_end = None
            /\ detected =>
                   r.latency_ms_from_playback_end =
                       Some(r.onset_ms_from_recording_start[1]
                            - r.playback_end_ms_rel[1])

\* a table with a missing file, a silent recording and a spoken answer
C8_Witness ==
    /\ a_pc = "done"
    /\ Len(records) = 3
    /\ records[1].status = "missing"
    /\ records[2].status = "no_speech_detected"
    /\ records[2].fallback_used = Some(TRUE)
    /\ records[3].status = "ok"
    /\ records[3].latency_ms_from_playback_end = Some(2)

Faulty(row) == row.wav.state \in {"missing", "unreadable"}
Healthy(row) == ~Faulty(row)
OfHealthyRow(r) == r.status \notin {"missing", "read_error"}

\* C9: a row whose WAV file is missing gets status missing, one whose file
\* cannot be read gets status read_error with the error in its note; neither
\* makes analyze raise, and the other rows get the results they get from the
\* table without the faulty rows.
C9_ErrorsIsolated ==
    /\ \A i \in 1..Len(records) :
          /\ df[i].wav.state = "missing" => records[i].status = "missing"
          /\ df[i].wav.state = "unreadable" =>
                 /\ records[i].status = "read_error"
                 /\ records[i].note # ""
          /\ OfHealthyRow(records[i]) <=> Healthy(df[i])
    /\ a_pc = "raised" => Healthy(df[Len(records) + 1])
    /\ a_pc = "done" => Len(records) = Len(df)
    /\ LET healthy == SelectSeq(df, Healthy)
           got == SelectSeq(records, OfHealthyRow)
       IN  \A i \in 1..Len(got) : got[i] = AnalyzeSignal(healthy[i], args)

\* a missing file, an unreadable file, then a recording that is analysed
C9_Witness ==
    /\ a_pc = "done"
    /\ Len(df) = 3
    /\ df[1].wav.state = "missing"
    /\ df[2].wav.state = "unreadable"
    /\ records[2].note = "read error: sf.read"
    /\ df[3].wav.state = "ok"
    /\ records[3].status = "ok"

---------------------------------------------------------------------------
(* Claims about the persisted timeline *)

SortedByOnset(rows) ==
    \A i \in 1..Len(rows) : \A j \in i..Len(rows) :
        rows[i].onset <= rows[j].onset

\* C10: the rows save_detailed_log persists are a permutation of the emitted
\* events, ascending by onset, and sorting the persisted rows again gives
\* the same sequence.
C10_SortedAndResortIdentical ==
    (a_pc = "log_resorted" /\ detailed_log # <<>>) =>
        /\ IsPermutation(files.log_rows, detailed_log)
        /\ SortedByOnset(files.log_rows)
        /\ resorted = files.log_rows

\* the rows of a log that have onset o, in their order
RowsAt(rows, o) == SelectSeq(rows, LAMBDA e : e.onset = o)

\* C11: the sort of save_detailed_log is stable: events of equal onset are
\* persisted in the order in which they were emitted.
C11_TiesKeepEmissionOrder ==
    (a_pc \in {"log_saved", "log_resorted"} /\ detailed_log # <<>>) =>
        \A i \in 1..Len(detailed_log) :
            RowsAt(files.log_rows, detailed_log[i].onset)
                = RowsAt(detailed_log, detailed_log[i].onset)

---------------------------------------------------------------------------
(* The phases of a trial *)

\* the phase of the per-trial state machine that control is in: run_trial
\* logs trial_start (CUE), sets up playback and recording and logs
\* prompt_onset (PLAYBACK), polls for FIXED_STIMULUS_TIME and finishes the
\* capture and the playback (RECORD_WINDOW), logs fixation_onset and shows
\* the fixation (ITI), logs trial_end and returns the trial record (DONE),
\* or returns None (ABORTED); NONE when no trial is running
Phase ==
    CASE pc = "trial_start" -> "CUE"
      [] pc \in {"load_playback", "start_recording", "start_playback",
                 "prompt_onset"} -> "PLAYBACK"
      [] pc \in {"record_window", "finish_playback", "fixation_onset"} ->
             "RECORD_WINDOW"
      [] pc \in {"iti", "trial_end"} -> "ITI"
      [] pc = "trial_return" /\ result.kind = "info" -> "DONE"
      [] pc = "trial_return" /\ result.kind = "None" -> "ABORTED"
      [] OTHER -> "NONE"

NonTerminalPhases == {"CUE", "PLAYBACK", "RECORD_WINDOW", "ITI"}
TerminalPhases == {"DONE", "ABORTED"}

\* the running trial goes from one phase to another
PhaseTransition ==
    /\ Phase \in NonTerminalPhases
    /\ Phase' \in NonTerminalPhases \cup TerminalPhases
    /\ Phase' # Phase

\* C12: every phase transition of a trial (CUE to PLAYBACK, PLAYBACK to
\* RECORD_WINDOW, RECORD_WINDOW to ITI, ITI to DONE, any non-terminal phase
\* to ABORTED) appends exactly one event to the timeline.
C12_OneEventPerTransition ==
    [][PhaseTransition => Len(detailed_log') = Len(detailed_log) + 1]_vars

---------------------------------------------------------------------------
(* Claims about the timing of a trial *)

\* C13: for every trial that has a trial_end event, a trial_start event of
\* the same trial was emitted before it, and the onset of trial_end is >= the
\* onset of trial_start, in the timeline and in the persisted log.
C13_TrialEndNotBeforeStart ==
    \A t \in 1..NumTrials :
        /\ \A i \in EventsOf(detailed_log, "trial_end", t) :
              /\ \E j \in EventsOf(detailed_log, "trial_start", t) : j < i
              /\ \A j \in EventsOf(detailed_log, "trial_start", t) :
                     detailed_log[i].onset >= detailed_log[j].onset
        /\ \A i \in EventsOf(files.log_rows, "trial_end", t) :
              /\ EventsOf(files.log_rows, "trial_start", t) # {}
              /\ \A j \in EventsOf(files.log_rows, "trial_start", t) :
                     files.log_rows[i].onset >= files.log_rows[j].onset

\* the second trial has ended, StimulusTicks + ItiTicks after it started
C13_Witness ==
    /\ pc = "trial_return"
    /\ result.kind = "info"
    /\ result.trial = 2
    /\ \E i \in EventsOf(detailed_log, "trial_end", 2) :
       \E j \in EventsOf(detailed_log, "trial_start", 2) :
           detailed_log[i].onset = detailed_log[j].onset + StimulusTicks + ItiTicks

\* C14: absent cancellation the record window lasts exactly
\* FIXED_STIMULUS_TIME: the poll loop is left for the end of the trial only
\* when that time has elapsed since the window began, and while it has not,
\* a poll that sees no cancel signal stays in the window whether the
\* playback channel is busy, idle or was never started.
C14_WindowRunsFullTime ==
    [][ /\ (pc = "record_window" /\ pc' = "finish_playback") =>
               now - start_wait = StimulusTicks
        /\ (/\ pc = "record_window"
            /\ now - start_wait < StimulusTicks
            /\ ~CancelSeen(pending)
            /\ pc' \notin {"loop_exit", "exited"}) =>
               /\ pc' = "record_window"
               /\ start_wait' = start_wait
        /\ pc' \in {"finish_playback", "fixation_onset"} =>
               now' - start_wait' = StimulusTicks ]_vars

\* the playback ended and was logged before the window was over, and the
\* window still ran its full time
C14_Witness ==
    /\ pc = "finish_playback"
    /\ now - start_wait = StimulusTicks
    /\ ~chan_busy
    /\ \E i \in EventsOf(detailed_log, "audio_playback_end", TrialNo) :
           detailed_log[i].onset < Onset(now)

---------------------------------------------------------------------------
(* Claims about degraded devices *)

\* the onsets of the events of one type that trial t has in the timeline
OnsetsOf(log, type, t) == {log[i].onset : i \in EventsOf(log, type, t)}

\* C15: no combination of playback device unavailable, stimulus file
\* missing, load or start failure of the playback, recording device
\* unavailable or recording start failure stops a trial: while no cancel
\* signal is pending the trial can always take its next step, and it ends
\* after the full record window and the full ITI with a trial record whose
\* recording_file is none when no recording was written and whose
\* playback_audio_file is none when nothing was loaded.
C15_DegradedTrialCompletes ==
    /\ [](( /\ pc \in TrialPcs
            /\ ~CancelSeen(pending)) =>
              ENABLED (TrialStep /\ result'.kind # "None"))
    /\ [][ (pc = "trial_end" /\ pc' = "trial_return") =>
             /\ result'.kind = "info"
             /\ result'.trial = TrialNo
             /\ trial_data' = trial_data
             /\ result'.recording_file = (TrialNo \in files.recordings)
             /\ result'.recording_file =
                    (EventsOf(detailed_log, "audio_recording_end", TrialNo) # {})
             /\ result'.playback_audio_file => playback_available
             /\ EventsOf(detailed_log, "audio_playback_start", TrialNo) # {} =>
                    result'.playback_audio_file
             /\ OnsetsOf(detailed_log, "fixation_onset", TrialNo) =
                    {o + StimulusTicks :
                       o \in OnsetsOf(detailed_log, "prompt_onset", TrialNo)}
             /\ OnsetsOf(detailed_log', "trial_end", TrialNo) =
                    {o + ItiTicks :
                       o \in OnsetsOf(detailed_log, "fixation_onset", TrialNo)}
             /\ Cardinality(OnsetsOf(detailed_log', "trial_end", TrialNo)) = 1 ]_vars

\* the first trial is done although the mixer was not available and sd.rec
\* raised: its record names neither a recording nor a playback file
C15_Witness ==
    /\ pc = "loop_head"
    /\ Len(trial_data) = 1
    /\ trial_data[1].kind = "info"
    /\ ~trial_data[1].recording_file
    /\ ~trial_data[1].playback_audio_file
    /\ ~playback_available
    /\ audio_error = "rec"
    /\ EventsOf(detailed_log, "trial_end", 1) # {}

\* C16: run_trial never changes playback_available: after a missing
\* stimulus file or a failed load or start of the playback in one trial, a
\* later trial whose file exists and loads, with the playback device
\* available, plays its stimulus.
C16_PlaybackNotSticky ==
    /\ [][ (pc \in TrialPcs) =>
               playback_available' = playback_available ]_vars
    /\ []((pc = "load_playback" /\ playback_available) =>
              ENABLED (load_playback /\ loc'.playback_sound))
    /\ []((pc = "start_playback" /\ loc.playback_sound) =>
              ENABLED (start_playback /\ chan_busy'
                       /\ Len(detailed_log') = Len(detailed_log) + 1))

\* the first trial ended without a playback although the device was
\* available, the second trial plays its stimulus
C16_Witness ==
    /\ pc = "prompt_onset"
    /\ TrialNo = 2
    /\ playback_available
    /\ chan_busy
    /\ EventsOf(detailed_log, "trial_end", 1) # {}
    /\ EventsOf(detailed_log, "audio_playback_start", 1) = {}
    /\ EventsOf(detailed_log, "audio_playback_start", 2) # {}

---------------------------------------------------------------------------
(* Claims about cancellation and the audio devices *)

\* C17: when a poll of the record window sees a cancel signal, the capture
\* and the stimulus playback of the trial are both stopped when run_trial
\* returns.
C17_CancelStopsAudio ==
    [][ (pc = "record_window" /\ TrialPollSeesCancel) =>
            (~rec_active' /\ ~chan_busy') ]_vars

\* the events of one type that trial t has in the timeline, counted
NumEvents(log, type, t) == Cardinality(EventsOf(log, type, t))

\* C18: a recording file is written, and audio_recording_end emitted, only
\* in the step after the full record window in which the capture has
\* completed; a trial cancelled during the record window writes no
\* recording file, emits no audio_recording_end and returns no trial record.
C18_NoPartialRecording ==
    /\ [][ (\/ files'.recordings # files.recordings
            \/ EventsOfType(detailed_log', "audio_recording_end")
                   # EventsOfType(detailed_log, "audio_recording_end")) =>
              /\ pc = "record_window"
              /\ pc' = "finish_playback"
              /\ now - start_wait >= StimulusTicks
              /\ loc.recording
              /\ rec_active
              /\ ~rec_active'
              /\ TrialNo \notin files.recordings
              /\ files'.recordings = files.recordings \cup {TrialNo}
              /\ NumEvents(detailed_log, "audio_recording_end", TrialNo) = 0
              /\ NumEvents(detailed_log', "audio_recording_end", TrialNo) = 1 ]_vars
    /\ [][ (pc = "record_window" /\ TrialPollSeesCancel) =>
              /\ files' = files
              /\ TrialNo \notin files'.recordings
              /\ NumEvents(detailed_log', "audio_recording_end", TrialNo) = 0
              /\ result'.kind = "None"
              /\ trial_data' = trial_data ]_vars
    /\ [](\A t \in 1..NumTrials :
              (t \in files.recordings) <=>
                  (NumEvents(detailed_log, "audio_recording_end", t) = 1))

\* the second trial was cancelled in its record window while its capture
\* was running: only the recording of the first trial is on disk
C18_Witness ==
    /\ pc = "trial_return"
    /\ result.kind = "None"
    /\ TrialNo = 2
    /\ files.recordings = {1}
    /\ NumEvents(detailed_log, "audio_recording_start", 2) = 1
    /\ NumEvents(detailed_log, "prompt_onset", 2) = 1
    /\ NumEvents(detailed_log, "fixation_onset", 2) = 0
    /\ ~rec_active

---------------------------------------------------------------------------
(* Claims about the order of the phases *)

\* the phase changes the per-trial state machine allows; a trial is left
\* for NONE when it has ended or when an exception leaves it
AllowedTransitions ==
    { <<"NONE", "CUE">>, <<"CUE", "PLAYBACK">>,
      <<"PLAYBACK", "RECORD_WINDOW">>, <<"RECORD_WINDOW", "ITI">>,
      <<"ITI", "DONE">>, <<"RECORD_WINDOW", "ABORTED">>,
      <<"ITI", "ABORTED">>, <<"DONE", "NONE">>, <<"ABORTED", "NONE">> }
    \cup { <<p, "NONE">> : p \in NonTerminalPhases }

PhasesInOrder == Phase' # Phase => <<Phase, Phase'>> \in AllowedTransitions

\* the ITI's poll loop will read the event queue once more
ItiPollAhead == pc = "iti" /\ now - start_wait < ItiTicks

\* a cancel signal is pending in a phase that still has a poll ahead
CancelPendingBeforeLastPoll ==
    /\ CancelSeen(pending)
    /\ \/ Phase \in {"CUE", "PLAYBACK", "RECORD_WINDOW"}
       \/ ItiPollAhead

\* C19 as stated: the phases are visited only in the order CUE, PLAYBACK,
\* RECORD_WINDOW, ITI, DONE, and a trial in which a cancel signal was raised
\* while it was in CUE, PLAYBACK, RECORD_WINDOW or ITI never reaches DONE.
C19_CancelNeverDone ==
    [][ /\ PhasesInOrder
        /\ (CancelSeen(pending) /\ Phase \in NonTerminalPhases) =>
               Phase' # "DONE" ]_vars

\* C19 amended: the phases are visited only in that order; a cancel signal
\* read by a poll of the record window or of the ITI ends the trial in
\* ABORTED; a cancel signal pending in CUE, PLAYBACK, RECORD_WINDOW or in the
\* ITI before its last poll stays pending until such a poll, so that trial
\* never reaches DONE; a trial reaches DONE with a cancel signal pending only
\* from the code after the ITI's loop.
C19_CancelAbortsAtNextPoll ==
    [][ /\ PhasesInOrder
        /\ TrialPollSeesCancel => Phase' = "ABORTED"
        /\ CancelPendingBeforeLastPoll =>
               /\ Phase' # "DONE"
               /\ pending' = pending \/ Phase' \in {"ABORTED", "NONE"}
        /\ (CancelSeen(pending) /\ Phase' = "DONE" /\ Phase # "DONE") =>
               pc = "trial_end" ]_vars

\* the second trial was aborted by a cancel signal that was pending when its
\* record window began
C19_Witness ==
    /\ Phase = "ABORTED"
    /\ TrialNo = 2
    /\ Len(trial_data) = 1
    /\ NumEvents(detailed_log, "prompt_onset", 2) = 1
    /\ \A i \in EventsOf(detailed_log, "prompt_onset", 2) :
           detailed_log[i].onset = Onset(now)

---------------------------------------------------------------------------
(* Claims about the exclusive use of the audio devices *)

\* the rows of the timeline that belong to a trial
TrialRows(log) == {i \in 1..Len(log) : log[i].trial >= 1}

\* C20: when a trial starts its recording no capture and no playback
\* channel is active, when it starts its playback no channel is active and
\* a capture in flight is its own; trials do not overlap: every event of a
\* trial is emitted after all events of the earlier trials, and a trial
\* starts only after the trial before it has logged its trial_end.
C20_DevicesExclusive ==
    /\ pc \in {"trial_start", "load_playback", "start_recording"} =>
           (~rec_active /\ ~chan_busy)
    /\ pc = "start_playback" =>
           (~chan_busy /\ (rec_active => loc.recording))
    /\ \A i \in TrialRows(detailed_log) : \A j \in TrialRows(detailed_log) :
           i < j => detailed_log[i].trial <= detailed_log[j].trial
    /\ \A t \in 2..NumTrials :
           \A i \in EventsOf(detailed_log, "trial_start", t) :
               \E j \in EventsOf(detailed_log, "trial_end", t - 1) : j < i

\* the second trial is about to start its playback with its own capture
\* running, after the first trial has used and released both devices
C20_Witness ==
    /\ pc = "start_playback"
    /\ TrialNo = 2
    /\ rec_active
    /\ loc.playback_sound
    /\ 1 \in files.recordings
    /\ NumEvents(detailed_log, "audio_playback_start", 1) = 1
    /\ \E i \in EventsOf(detailed_log, "audio_playback_end", 1) :
       \E j \in EventsOf(detailed_log, "fixation_onset", 1) :
           detailed_log[i].onset = detailed_log[j].onset

---------------------------------------------------------------------------
(* Claims about the end of the session *)

\* run_task is past its trial loop (lines 816-865)
AfterLoopPcs == {"loop_exit", "final_rest", "finalize", "end_screen"}

\* lines 841-853 have written everything run_task holds
PersistedByRunTask(f) ==
    /\ timestamps # <<>> => f.ts_rows = timestamps
    /\ trial_data # <<>> => f.csv_rows = trial_data
    /\ detailed_log # <<>> =>
         /\ f.log_written
         /\ IsPermutation(f.log_rows, detailed_log)

\* C21: an exception raised inside the trial loop is caught by run_task: it
\* sets interrupted and leaves the loop with the rows, timestamps and events
\* collected so far; once the loop is left with interrupted set no trial
\* starts and the flag stays; the code after the loop writes the timestamps,
\* the rows of the completed trials and the event log with interrupted =
\* true, and run_task returns False.
C21_ExceptionPersists ==
    [][ /\ unexpected_exception =>
             /\ interrupted'
             /\ pc' = "loop_exit"
             /\ trial_data' = trial_data
             /\ timestamps' = timestamps
             /\ detailed_log' = detailed_log
        /\ (interrupted /\ pc \in AfterLoopPcs) =>
             /\ interrupted'
             /\ pc' \in AfterLoopPcs \cup {"exited"}
             /\ trial_data' = trial_data
             /\ timestamps' = timestamps
             /\ last_trial_idx' = last_trial_idx
             /\ EventsOfType(detailed_log', "trial_start")
                  = EventsOfType(detailed_log, "trial_start")
        /\ (interrupted /\ pc = "finalize" /\ pc' = "end_screen") =>
             /\ PersistedByRunTask(files')
             /\ files'.log_flag
        /\ (interrupted /\ pc = "end_screen" /\ pc' = "exited") =>
             /\ task_result' = "False"
             /\ PersistedByRunTask(files')
             /\ files'.log_flag ]_vars

\* C21 witness: the second trial raised before its prompt (no poll had run,
\* so it was no cancel), run_task went through its final rest and wrote the
\* first trial's row, its timestamps and the flagged log, and returned False
C21_Witness ==
    /\ pc = "exited"
    /\ task_result = "False"
    /\ interrupted
    /\ result.kind # "None"
    /\ Len(files.csv_rows) = 1
    /\ Len(files.ts_rows) = 1
    /\ files.log_flag
    /\ EventsOf(files.log_rows, "trial_start", 2) # {}
    /\ EventsOf(files.log_rows, "prompt_onset", 2) = {}
    /\ EventsOf(files.log_rows, "final_long_rest", 2) # {}
    /\ files.log_saves = 1

\* C22: when the program has ended after at least one trial completed, the
\* rows of the completed trials, their timestamps rows and the captured
\* events are on disk, whichever way the session ended.
C22_PartialDataWritten ==
    (pc = "exited" /\ trial_data # <<>>) =>
        /\ files.csv_rows = trial_data
        /\ files.ts_rows = timestamps
        /\ files.log_written
        /\ IsPermutation(files.log_rows, detailed_log)

\* run_task has returned after the third trial returned None
ThirdTrialCancelled ==
    /\ pc = "exited"
    /\ result.kind = "None"
    /\ TrialNo = 3
    /\ trials = 4

\* C23 as stated: the four-trial session whose third trial is cancelled
\* leaves exactly 3 trial rows, a timeline flagged interrupted, and as many
\* persisted events as were emitted.
C23_ThreeTrialRows ==
    ThirdTrialCancelled =>
        /\ Len(files.csv_rows) = 3
        /\ files.log_flag
        /\ Len(files.log_rows) = Len(detailed_log)

\* C23 amended: the four-trial session whose third trial is cancelled leaves
\* exactly 2 trial rows and 2 timestamps rows, those of trials 1 and 2; the
\* timeline is flagged interrupted and holds every event emitted: those of
\* trials 1 and 2, those of trial 3 up to the cancel, none of trial 4, and
\* experiment_end and final_long_rest.
C23_TwoTrialRows ==
    ThirdTrialCancelled =>
        /\ Len(files.csv_rows) = 2
        /\ \A k \in 1..2 : files.csv_rows[k].trial = k
        /\ Len(files.ts_rows) = 2
        /\ files.log_flag
        /\ files.log_saves = 1
        /\ IsPermutation(files.log_rows, detailed_log)
        /\ \A t \in 1..2 : NumEvents(files.log_rows, "trial_end", t) = 1
        /\ \A t \in 1..3 : NumEvents(files.log_rows, "trial_start", t) = 1
        /\ NumEvents(files.log_rows, "prompt_onset", 3) = 1
        /\ NumEvents(files.log_rows, "trial_end", 3) = 0
        /\ TrialRows(files.log_rows) \cap {i \in 1..Len(files.log_rows) : files.log_rows[i].trial = 4} = {}
        /\ NumEvents(files.log_rows, "experiment_end", 3) = 1
        /\ NumEvents(files.log_rows, "final_long_rest", 3) = 1

\* C23 witness: the cancel came in the record window of trial 3 while its
\* capture ran, after two trials that recorded
C23_Witness ==
    /\ ThirdTrialCancelled
    /\ task_result = "False"
    /\ files.recordings = {1, 2}
    /\ NumEvents(files.log_rows, "audio_recording_start", 3) = 1
    /\ NumEvents(files.log_rows, "fixation_onset", 3) = 0

---------------------------------------------------------------------------
(* Claims about the scan of a recording's samples *)

\* the analysed recording, its frame length in samples and its energy
Samples == df[1].wav.samples
SampleRate == df[1].wav.sample_rate
FrameSamples == FrameLength(SampleRate, args.frame_ms)
FrameEnergies == rolling_energy_db(Samples, FrameSamples)

\* playback_end_rel + guard_ms of the analysed row (lines 204-206)
GuardedStartMs == PlaybackEndRel(df[1]) + args.guard_ms

\* every sample of the recording is silence
Silent(signal) == \A i \in 1..Len(signal) : signal[i] = 0

\* C24: a recording that is silence throughout has every frame at the energy
\* floor and, for every playback-end time and guard, gets status
\* no_speech_detected with latency none and onset none: the primary pass
\* finds no onset, the fallback pass is taken and finds none either.
C24_SilenceNotDetected ==
    (a_pc = "done" /\ Silent(Samples)) =>
        /\ \A k \in 1..Len(FrameEnergies) : FrameEnergies[k] = -480
        /\ records[1].status = "no_speech_detected"
        /\ records[1].latency_ms_from_playback_end = None
        /\ records[1].onset_ms_from_recording_start = None
        /\ detect_onset_after(FrameEnergies, SampleRate, FrameSamples,
                              GuardedStartMs, args.threshold_db,
                              args.min_frames) = None
        /\ records[1].fallback_used = Some(TRUE)
        /\ detect_onset_after(FrameEnergies, SampleRate, FrameSamples,
                              GuardedStartMs,
                              records[1].dynamic_threshold_db[1],
                              args.min_frames) = None

\* C24 witness: a silent recording of more than min_frames frames was
\* scanned from a guarded start inside it
C24_Witness ==
    /\ a_pc = "done"
    /\ Silent(Samples)
    /\ Len(FrameEnergies) > args.min_frames
    /\ PlaybackEndRel(df[1]) > 0
    /\ args.guard_ms > 0
    /\ records[1].status = "no_speech_detected"
    /\ records[1].dynamic_threshold_db = Some(args.threshold_db - 20)

\* the sample (from 0) at which the burst starts: the number of samples of
\* silence before it
BurstStart(signal) ==
    Cardinality({i \in 1..Len(signal) : \A j \in 1..i : signal[j] = 0})

\* the number of samples at full scale
BurstLength(signal) == Cardinality({i \in 1..Len(signal) : signal[i] = 1})

\* line 101: the sample the guarded start falls on
GuardedStartSample == RoundHalfEven(GuardedStartMs * SampleRate, 4000)

\* a time in samples, in quarter-ms
SamplesToMs(n) == (n * 4000) \div SampleRate

\* the burst starts at or after the guarded start and lasts min_frames
\* frames and a frame length more
BurstAfterGuardedStart ==
    /\ ~Silent(Samples)
    /\ BurstStart(Samples) >= GuardedStartSample
    /\ BurstLength(Samples) >= args.min_frames + FrameSamples - 1

\* C25: for silence followed by a full-scale burst that starts at sample S,
\* at or after the guarded start, with min_frames = 4 and a frame of L
\* samples, an onset is reported and it lies within L samples of S.
C25_OnsetWithinFrameOfBurst ==
    (a_pc = "done" /\ BurstAfterGuardedStart) =>
        /\ records[1].status = "ok"
        /\ records[1].onset_ms_from_recording_start # None
        /\ LET onset == records[1].onset_ms_from_recording_start[1]
               s_ms == SamplesToMs(BurstStart(Samples))
               l_ms == SamplesToMs(FrameSamples)
           IN  /\ onset - s_ms <= l_ms
               /\ s_ms - onset <= l_ms

\* C25 witness: a frame of 4 samples, the burst starts 5 samples into the
\* recording and after the guarded start, and the onset reported is not the
\* burst's first sample
C25_Witness ==
    /\ a_pc = "done"
    /\ BurstAfterGuardedStart
    /\ FrameSamples = 4
    /\ BurstStart(Samples) = 5
    /\ GuardedStartSample > 0
    /\ records[1].onset_ms_from_recording_start # None
    /\ records[1].onset_ms_from_recording_start[1] # SamplesToMs(5)

---------------------------------------------------------------------------
(* Claims about the fallback pass and the rows of the result *)

\* the threshold of the fallback pass of row i (line 224)
FallbackThreshold(i) == Max(args.threshold_db - 20, NoiseFloor(i) + 24)

\* C26 as stated: whenever the primary pass finds nothing and a run of
\* min_frames frames after the guarded start exceeds noise_floor + 6 dB, the
\* row gets the onset of that run and status ok.
C26_FallbackAboveNoiseFloor ==
    \A i \in AnalysedRows :
        ( /\ ExpectedRowOnset(i, args.threshold_db) = None
          /\ ExpectedRowOnset(i, NoiseFloor(i) + 24) # None ) =>
            /\ records[i].status = "ok"
            /\ records[i].onset_ms_from_recording_start
                 = ExpectedRowOnset(i, NoiseFloor(i) + 24)

\* C26 amended: whenever the primary pass finds nothing and a run of
\* min_frames frames after the guarded start exceeds the dynamic threshold
\* max(threshold_db - 5, noise_floor + 6 dB), the fallback pass reports the
\* onset of the first such run and the row gets status ok; with no such run
\* the row gets no_speech_detected.
C26_FallbackAboveDynamicThreshold ==
    \A i \in AnalysedRows :
        ExpectedRowOnset(i, args.threshold_db) = None =>
            /\ records[i].fallback_used = Some(TRUE)
            /\ ExpectedRowOnset(i, FallbackThreshold(i)) # None =>
                 /\ records[i].status = "ok"
                 /\ records[i].onset_ms_from_recording_start
                      = ExpectedRowOnset(i, FallbackThreshold(i))
            /\ ExpectedRowOnset(i, FallbackThreshold(i)) = None =>
                 records[i].status = "no_speech_detected"

\* C26 witness: frames at -42 dB after silence: the primary pass at -40 dB
\* finds nothing, the fallback pass at -45 dB finds them
C26_Witness ==
    \E i \in AnalysedRows :
        /\ args.threshold_db = -160
        /\ args.min_frames = 2
        /\ ExpectedRowOnset(i, args.threshold_db) = None
        /\ NoiseFloor(i) = -480
        /\ records[i].dynamic_threshold_db = Some(-180)
        /\ records[i].status = "ok"
        /\ records[i].latency_ms_from_playback_end # None

\* result row r carries the fields of input row
CarriesRow(r, row) ==
    /\ r.trial = row.trial
    /\ r.playback_end_ms = row.playback_end_ms
    /\ r.recording_start_ms = row.recording_start_ms
    /\ r.audio_path = row.wav

---------------------------------------------------------------------------
(* Claims about the timeline as a whole *)

\* the positions of the events a step has appended
Appended == (Len(detailed_log) + 1)..Len(detailed_log')

\* C28: trigger_time is set once, by the step that receives the trigger and
\* before any event exists; from then on no step changes it; every event is
\* emitted with the reference set and its onset is the clock at emission
\* minus trigger_time.
C28_SingleReference ==
    [][ /\ trigger_time # 0 => trigger_time' = trigger_time
        /\ trigger_time' # trigger_time =>
             /\ pc = "wait_for_trigger"
             /\ detailed_log = <<>>
             /\ trigger_time' = now
        /\ \A i \in Appended :
             /\ trigger_time # 0
             /\ detailed_log'[i].onset = now - trigger_time ]_vars

\* C28 witness: the second trial has started, two poll ticks and more after
\* the trigger
C28_Witness ==
    /\ trigger_time # 0
    /\ pc = "load_playback"
    /\ TrialNo = 2
    /\ \E i \in EventsOf(detailed_log, "trial_start", 2) :
         /\ detailed_log[i].onset = now - trigger_time
         /\ detailed_log[i].onset >= 2

---------------------------------------------------------------------------
(* Claims about termination *)

\* the events of the timeline that are not experiment_end or final_long_rest
BeforeEndEvents(log) ==
    {i \in 1..Len(log) :
        log[i].event_type \notin {"experiment_end", "final_long_rest"}}

---------------------------------------------------------------------------
(* Claims about the pairing of the audio events *)

\* every event of type later that trial t has in the log stands behind an
\* event of type earlier of the same trial, and its onset is not smaller
OnlyAfter(log, earlier, later, t) ==
    \A i \in EventsOf(log, later, t) :
        \E j \in EventsOf(log, earlier, t) :
            j < i /\ log[j].onset <= log[i].onset

---------------------------------------------------------------------------
(* Claims about the order of the timeline *)

\* two rows of different onsets stand in rows as they stand in log
KeepsOrderAcrossOnsets(log, rows) ==
    /\ IsPermutation(rows, log)
    /\ \A p \in 1..Len(rows) : \A q \in (p + 1)..Len(rows) :
         rows[p].onset # rows[q].onset =>
             \E i \in 1..Len(log) : \E j \in (i + 1)..Len(log) :
                 log[i] = rows[p] /\ log[j] = rows[q]

\* C32: throughout the session the timeline is in non-decreasing onset order
\* as appended, so whatever order sort_values gives to the ties, the sort of
\* save_detailed_log leaves two events of different onsets in the order in
\* which they were emitted: this holds of every sort of the current timeline
\* and of the rows that were persisted.
C32_EmittedInOnsetOrder ==
    /\ \A i \in 1..(Len(detailed_log) - 1) :
         detailed_log[i].onset <= detailed_log[i + 1].onset
    /\ \A rows \in sort_values(detailed_log) :
         KeepsOrderAcrossOnsets(detailed_log, rows)
    /\ files.log_written => KeepsOrderAcrossOnsets(detailed_log, files.log_rows)

\* C32 witness: a timeline with events at three or more onsets was
\* persisted, and the sort moved rows of equal onset
C32_Witness ==
    /\ pc = "exited"
    /\ files.log_written
    /\ trigger_time # 0
    /\ Cardinality({detailed_log[i].onset : i \in 1..Len(detailed_log)}) >= 3
    /\ files.log_rows # detailed_log

---------------------------------------------------------------------------
(* Claims about the threshold of the fallback pass *)

\* C33: a result whose onset was found by the fallback pass has a
\* dynamic_threshold_db below threshold_db; when the fallback pass runs with
\* noise_floor + 6 dB >= threshold_db, its threshold is noise_floor + 6 dB,
\* it finds no onset and the row is no_speech_detected.
C33_FallbackOnlyBelowPrimary ==
    \A i \in AnalysedRows :
        LET r == records[i]
        IN  /\ (/\ r.fallback_used = Some(TRUE)
                /\ r.onset_ms_from_recording_start # None) =>
                   r.dynamic_threshold_db[1] < args.threshold_db
            /\ (/\ r.fallback_used = Some(TRUE)
                /\ NoiseFloor(i) + 24 >= args.threshold_db) =>
                   /\ r.dynamic_threshold_db = Some(NoiseFloor(i) + 24)
                   /\ r.onset_ms_from_recording_start = None
                   /\ r.latency_ms_from_playback_end = None
                   /\ r.status = "no_speech_detected"

\* C33 witness: the frames before the end of the playback are at -42 dB, so
\* the fallback pass runs at -36 dB, above the primary -40 dB, and the row,
\* which has frames at -30 dB behind the guarded start but no run of
\* min_frames of them, is no_speech_detected
C33_Witness ==
    \E i \in AnalysedRows :
        /\ args.threshold_db = -160
        /\ args.min_frames = 2
        /\ NoiseFloor(i) = -168
        /\ \E k \in 2..Len(df[i].wav.energy_db) : df[i].wav.energy_db[k] = -120
        /\ records[i].fallback_used = Some(TRUE)
        /\ records[i].dynamic_threshold_db = Some(-144)
        /\ records[i].status = "no_speech_detected"

---------------------------------------------------------------------------
(* Claims about the timestamps rows *)

\* the trial records that run_trial has returned so far: the rows run_task
\* has appended and the record just returned that it has yet to append
ReturnedRecords ==
    IF /\ result.kind = "info"
       /\ \A i \in 1..Len(trial_data) : trial_data[i].trial # result.trial
    THEN Append(trial_data, result)
    ELSE trial_data

\* the trial numbers of a list of rows, in their order
TrialsOf(rows) == [i \in 1..Len(rows) |-> rows[i].trial]

\* C34: at every point of the session the timestamps list holds exactly one
\* row for each trial record that run_trial returned, in the same order;
\* between two trials it matches run_task's trial rows one to one; a trial
\* that returned None has no timestamps row.
C34_TimestampsInLockstep ==
    /\ TrialsOf(timestamps) = TrialsOf(ReturnedRecords)
    /\ pc = "loop_head" => TrialsOf(timestamps) = TrialsOf(trial_data)
    /\ \A i \in 1..Len(timestamps) : \A j \in 1..Len(timestamps) :
         timestamps[i].trial = timestamps[j].trial => i = j
    /\ result.kind = "None" =>
         \A i \in 1..Len(timestamps) : timestamps[i].trial # TrialNo

\* C34 witness: the first trial returned its record, the second was
\* cancelled in its ITI after its events were logged: one timestamps row,
\* one trial row
C34_Witness ==
    /\ pc = "loop_exit"
    /\ result.kind = "None"
    /\ TrialNo = 2
    /\ NumEvents(detailed_log, "fixation_onset", 2) = 1
    /\ TrialsOf(timestamps) = <<1>>
    /\ TrialsOf(trial_data) = <<1>>

---------------------------------------------------------------------------
(* Claims about the saved recordings *)

\* run_trial has returned for trial t, with a record or with None
HasReturned(t) ==
    \/ t < TrialNo
    \/ t = TrialNo /\ result.kind = "None"
    \/ t = TrialNo /\ result.kind = "info" /\ result.trial = t

\* a trial record was returned for trial t, and it names the recording
HasRecordNamingFile(t) ==
    \E i \in 1..Len(ReturnedRecords) :
        /\ ReturnedRecords[i].trial = t
        /\ ReturnedRecords[i].recording_file

\* C35 as stated: a trial whose recording file was written returns a trial
\* record, so once run_trial has returned for a trial with a saved
\* recording, with a record or aborted, there is a trial record for it.
C35_RecordingOnlyWithRecord ==
    \A t \in files.recordings : HasReturned(t) => HasRecordNamingFile(t)

\* C35 amended: a saved recording belongs to a trial whose record window
\* ran in full (its audio_recording_end lies a full window behind its
\* prompt_onset); every trial before the last started one that has a saved
\* recording has a trial record naming it, and every trial record that
\* names a recording has it saved; a trial aborted during its record window
\* leaves no saved recording, so the only aborted trial with a saved
\* recording and no trial record is one aborted in its ITI, behind its
\* fixation_onset.
C35_RecordingOnlyAfterFullWindow ==
    /\ \A t \in files.recordings :
         /\ NumEvents(detailed_log, "audio_recording_end", t) = 1
         /\ \A i \in EventsOf(detailed_log, "audio_recording_end", t) :
              \E j \in EventsOf(detailed_log, "prompt_onset", t) :
                  /\ j < i
                  /\ trigger_time # 0 =>
                       detailed_log[i].onset - detailed_log[j].onset
                           >= StimulusTicks
         /\ t < TrialNo => HasRecordNamingFile(t)
         /\ (t = TrialNo /\ result.kind = "None") =>
              NumEvents(detailed_log, "fixation_onset", t) = 1
    /\ \A i \in 1..Len(ReturnedRecords) :
         ReturnedRecords[i].recording_file =>
             ReturnedRecords[i].trial \in files.recordings
    /\ (/\ result.kind = "None"
        /\ NumEvents(detailed_log, "fixation_onset", TrialNo) = 0) =>
           TrialNo \notin files.recordings

\* C35 witness: the second trial was cancelled in its ITI: its recording is
\* saved and its audio_recording_end logged, and run_task has left the loop
\* with the row of the first trial only
C35_Witness ==
    /\ pc = "loop_exit"
    /\ result.kind = "None"
    /\ TrialNo = 2
    /\ files.recordings = {1, 2}
    /\ NumEvents(detailed_log, "audio_recording_end", 2) = 1
    /\ NumEvents(detailed_log, "fixation_onset", 2) = 1
    /\ TrialsOf(trial_data) = <<1>>
    /\ trial_data[1].recording_file

=============================================================================
